---- MODULE Spec2Model ----
(***************************************************************************)
(* Verification model of the extraction-and-normalization core of the      *)
(* Yandex Maps scraper: the pydantic domain models (Enterprise, Review)    *)
(* and the field parsers (ServiceParser, ScheduleParser, ContactParser,    *)
(* ReviewParser) with their ParseResult.                                   *)
(*                                                                         *)
(* Text is a sequence of characters.  A character is a one-element name:   *)
(* ASCII characters stand for themselves, a Cyrillic letter is written     *)
(* "ru_<translit>" (lower case) or "RU_<TRANSLIT>" (upper case), and the   *)
(* other non-ASCII signs have names (RUB, ENDASH, EMDASH, BULLET, STAR).   *)
(* An optional value is <<>> (None) or <<v>>.                              *)
(***************************************************************************)
EXTENDS Integers, Sequences, FiniteSets, TLC

VARIABLES op, arg, res

vars == <<op, arg, res>>

None == <<>>
Some(v) == <<v>>
IsNone(o) == Len(o) = 0
Val(o) == o[1]

----------------------------------------------------------------------------
(* Characters and the character classes of Python's re module.             *)

Digit == {"0", "1", "2", "3", "4", "5", "6", "7", "8", "9"}
LatinLower == {"a", "b", "c", "d", "e", "f", "g", "h", "i", "j", "k", "l", "m", "n", "o", "p", "q",
    "r", "s", "t", "u", "v", "w", "x", "y", "z"}
LatinUpper == {"A", "B", "C", "D", "E", "F", "G", "H", "I", "J", "K", "L", "M", "N", "O", "P", "Q",
    "R", "S", "T", "U", "V", "W", "X", "Y", "Z"}
\* the range [а-я] (it leaves out the letter yo, which lies outside of it)
CyrLowerRange == {"ru_a", "ru_b", "ru_v", "ru_g", "ru_d", "ru_e", "ru_zh", "ru_z", "ru_i", "ru_j",
    "ru_k", "ru_l", "ru_m", "ru_n", "ru_o", "ru_p", "ru_r", "ru_s", "ru_t", "ru_u", "ru_f", "ru_h",
    "ru_c", "ru_ch", "ru_sh", "ru_sch", "ru_hard", "ru_y", "ru_soft", "ru_eh", "ru_yu", "ru_ya"}
\* the range [А-Я]
CyrUpperRange == {"RU_A", "RU_B", "RU_V", "RU_G", "RU_D", "RU_E", "RU_ZH", "RU_Z", "RU_I", "RU_J",
    "RU_K", "RU_L", "RU_M", "RU_N", "RU_O", "RU_P", "RU_R", "RU_S", "RU_T", "RU_U", "RU_F", "RU_H",
    "RU_C", "RU_CH", "RU_SH", "RU_SCH", "RU_HARD", "RU_Y", "RU_SOFT", "RU_EH", "RU_YU", "RU_YA"}
\* \s
Whitespace == {" ", "\n", "\t", "\r"}
\* \w (Unicode): letters, digits and the underscore
WordChar == Digit \cup LatinLower \cup LatinUpper \cup CyrLowerRange \cup CyrUpperRange
            \cup {"ru_yo", "RU_YO", "_"}
\* [-–—]
Dashes == {"-", "ENDASH", "EMDASH"}

LowerMap == ("RU_A" :> "ru_a") @@ ("RU_B" :> "ru_b") @@ ("RU_V" :> "ru_v") @@ ("RU_G" :> "ru_g") @@
    ("RU_D" :> "ru_d") @@ ("RU_E" :> "ru_e") @@ ("RU_ZH" :> "ru_zh") @@ ("RU_Z" :> "ru_z") @@
    ("RU_I" :> "ru_i") @@ ("RU_J" :> "ru_j") @@ ("RU_K" :> "ru_k") @@ ("RU_L" :> "ru_l") @@
    ("RU_M" :> "ru_m") @@ ("RU_N" :> "ru_n") @@ ("RU_O" :> "ru_o") @@ ("RU_P" :> "ru_p") @@
    ("RU_R" :> "ru_r") @@ ("RU_S" :> "ru_s") @@ ("RU_T" :> "ru_t") @@ ("RU_U" :> "ru_u") @@
    ("RU_F" :> "ru_f") @@ ("RU_H" :> "ru_h") @@ ("RU_C" :> "ru_c") @@ ("RU_CH" :> "ru_ch") @@
    ("RU_SH" :> "ru_sh") @@ ("RU_SCH" :> "ru_sch") @@ ("RU_HARD" :> "ru_hard") @@
    ("RU_Y" :> "ru_y") @@ ("RU_SOFT" :> "ru_soft") @@ ("RU_EH" :> "ru_eh") @@
    ("RU_YU" :> "ru_yu") @@ ("RU_YA" :> "ru_ya") @@ ("RU_YO" :> "ru_yo") @@
    ("A" :> "a") @@ ("B" :> "b") @@ ("C" :> "c") @@ ("D" :> "d") @@ ("E" :> "e") @@
    ("F" :> "f") @@ ("G" :> "g") @@ ("H" :> "h") @@ ("I" :> "i") @@ ("J" :> "j") @@
    ("K" :> "k") @@ ("L" :> "l") @@ ("M" :> "m") @@ ("N" :> "n") @@ ("O" :> "o") @@
    ("P" :> "p") @@ ("Q" :> "q") @@ ("R" :> "r") @@ ("S" :> "s") @@ ("T" :> "t") @@
    ("U" :> "u") @@ ("V" :> "v") @@ ("W" :> "w") @@ ("X" :> "x") @@ ("Y" :> "y") @@
    ("Z" :> "z")
UpperChars == DOMAIN LowerMap

\* str.lower() of one character
LowerChar(c) == IF c \in UpperChars THEN LowerMap[c] ELSE c
\* str.lower()
Lower(s) == [i \in 1..Len(s) |-> LowerChar(s[i])]
\* the upper-case partner of a lower-case letter (the letter itself when it has none)
UpperChar(c) == IF \E u \in UpperChars : LowerMap[u] = c
                THEN CHOOSE u \in UpperChars : LowerMap[u] = c
                ELSE c

----------------------------------------------------------------------------
(* Plain string operations of Python's str.                                *)

\* s[a:b] with 1-based a and exclusive b
Slice(s, a, b) == SubSeq(s, a, b - 1)

\* str.lstrip()
LStrip(s) ==
  LET black == {i \in 1..Len(s) : s[i] \notin Whitespace}
  IN IF black = {} THEN <<>>
     ELSE SubSeq(s, CHOOSE i \in black : \A j \in black : i <= j, Len(s))
\* str.rstrip()
RStrip(s) ==
  LET black == {i \in 1..Len(s) : s[i] \notin Whitespace}
  IN IF black = {} THEN <<>>
     ELSE SubSeq(s, 1, CHOOSE i \in black : \A j \in black : i >= j)
\* str.strip()
Strip(s) == RStrip(LStrip(s))

\* s.startswith(w) at position i
MatchesAt(s, w, i) == /\ i + Len(w) - 1 <= Len(s)
                      /\ \A j \in 1..Len(w) : s[i + j - 1] = w[j]
StartsWith(s, w) == MatchesAt(s, w, 1)
\* w in s
Contains(s, w) == \E i \in 1..(Len(s) + 1) : MatchesAt(s, w, i)


\* str.isdigit()
IsDigitStr(s) == Len(s) > 0 /\ \A i \in 1..Len(s) : s[i] \in Digit

\* int(s) of a digit string
RECURSIVE ToInt(_)
ToInt(s) == IF Len(s) = 0 THEN 0
            ELSE 10 * ToInt(SubSeq(s, 1, Len(s) - 1))
                 + (CHOOSE d \in 0..9 : ToString(d) = s[Len(s)])
\* str(n) of a natural number
RECURSIVE ToStr(_)
ToStr(n) == IF n < 10 THEN <<ToString(n)>> ELSE Append(ToStr(n \div 10), ToString(n % 10))

----------------------------------------------------------------------------
(* Regular expressions as Python's re module matches them: a pattern is a  *)
(* sequence of nodes, matched left to right by backtracking, greedy        *)
(* repetition first and alternatives in the order written.                 *)

\* the repetition bound that stands for "no upper bound" (+ and *): above every text length
Unbounded == 100000
NoMatch == [s |-> 0, e |-> 0, g |-> <<>>]
\* a group that took no part in the match
Unset == <<0, 0>>

\* [S]{lo,hi}
Cls(S, lo, hi) ==
  <<[k |-> "set", neg |-> FALSE, cs |-> S, lo |-> lo, hi |-> hi, lazy |-> FALSE]>>
\* [^S]{lo,hi}
NotCls(S, lo, hi) ==
  <<[k |-> "set", neg |-> TRUE, cs |-> S, lo |-> lo, hi |-> hi, lazy |-> FALSE]>>
\* .{lo,hi}? : any character but a newline, as few as possible
LazyDot(lo, hi) ==
  <<[k |-> "set", neg |-> TRUE, cs |-> {"\n"}, lo |-> lo, hi |-> hi, lazy |-> TRUE]>>
\* the literal text w
Lit(w) == <<[k |-> "lit", w |-> w]>>
\* (a1|a2|...) or (a1|a2|...)? as capture group number cap (cap = 0: not capturing):
\* taken lo..1 times
Grp(cap, alts, lo, hi) == <<[k |-> "grp", cap |-> cap, alts |-> alts, lo |-> lo]>>
\* (?:a1|a2|...)*
Star(alts) == <<[k |-> "star", alts |-> alts]>>
\* (?=re)
Look(re) == <<[k |-> "look", re |-> re]>>
\* ^
Bol == <<[k |-> "bol"]>>
\* $
Eol == <<[k |-> "eol"]>>

InCls(n, c, ic) ==
  LET m == \/ c \in n.cs
           \/ ic /\ (LowerChar(c) \in n.cs \/ UpperChar(c) \in n.cs)
  IN IF n.neg THEN ~m ELSE m

\* the longest run of characters of the node's class at position i, at most n.hi
Run(n, s, i, ic) ==
  LET most == IF n.hi < Len(s) - i + 1 THEN n.hi ELSE Len(s) - i + 1
  IN CHOOSE cnt \in 0..most :
       /\ \A j \in 0..(cnt - 1) : InCls(n, s[i + j], ic)
       /\ cnt = most \/ ~InCls(n, s[i + cnt], ic)

\* the literal w at position i
LitAt(w, s, i, ic) ==
  /\ i + Len(w) - 1 <= Len(s)
  /\ \A j \in 1..Len(w) : \/ s[i + j - 1] = w[j]
                          \/ ic /\ LowerChar(s[i + j - 1]) = LowerChar(w[j])

\* The statements of the code run one after another: the value v is computed before the
\* expression e that uses it is.
Then(v, e) == IF v = v THEN e ELSE e
\* A local variable: the value e under the name the expression body gives it.
Let(e, body(_)) == body(e)

\* the parts lo..hi, one after the other
RECURSIVE Concat(_, _, _)
Concat(parts, lo, hi) ==
  IF lo > hi THEN <<>>
  ELSE IF lo = hi THEN parts[lo]
  ELSE LET mid == (lo + hi) \div 2
       IN Concat(parts, lo, mid) \o Concat(parts, mid + 1, hi)
\* the lists, one after the other
Flat(lists) == Concat(lists, 1, Len(lists))
\* of the ways that end at the same place the first: what follows depends on the place
\* only, so the backtracking never comes to the later ones
FirstByEnd(l) ==
  LET marked == [k \in 1..Len(l) |-> [m |-> l[k], first |-> \A j \in 1..(k - 1) : l[j].e # l[k].e]]
      firsts == SelectSeq(marked, LAMBDA r : r.first)
  IN IF Len(l) < 2 THEN l ELSE [k \in 1..Len(firsts) |-> firsts[k].m]

\* The ways a pattern matches, in the order the backtracking of re tries them (a greedy
\* repetition the largest count first, alternatives in the order written): a way is the
\* place e it has come to and the groups g it has set.  Ways(re, ...) takes the ways that
\* lead to the nodes lo..hi of re through these nodes, NodeWays one way through one node.
\* the ways through [S]{lo,hi} where the longest run has most characters: the longest
\* first, or the shortest first for a lazy node
SetWays(n, w, most) ==
  IF most < n.lo THEN <<>>
  ELSE [c \in 1..(most - n.lo + 1) |->
          [e |-> w.e + (IF n.lazy THEN n.lo + c - 1 ELSE most - c + 1), g |-> w.g]]
\* the ways taken through a group, with the group's capture set
Closed(n, w, taken) ==
  IF n.cap = 0 THEN taken
  ELSE [k \in 1..Len(taken) |->
          [e |-> taken[k].e, g |-> [taken[k].g EXCEPT ![n.cap] = <<w.e, taken[k].e>>]]]
\* (...)?: after the ways through the group the way past it
Optional(n, w, closed) == IF n.lo = 0 THEN FirstByEnd(closed \o <<w>>) ELSE closed
\* the ends of the turns of a starred group carry the groups g
Carry(turns, g) == [t \in 1..Len(turns) |-> [e |-> turns[t].e, g |-> g]]

RECURSIVE Ways(_, _, _, _, _, _), NodeWays(_, _, _, _), StarTable(_, _, _, _)
Ways(re, s, ic, lo, hi, ways) ==
  IF lo > hi \/ Len(ways) = 0 THEN ways
  ELSE IF lo < hi
  THEN Ways(re, s, ic, (lo + hi) \div 2 + 1, hi, Ways(re, s, ic, lo, (lo + hi) \div 2, ways))
  ELSE FirstByEnd(Flat([k \in 1..Len(ways) |-> NodeWays(re[lo], s, ic, ways[k])]))
NodeWays(n, s, ic, w) ==
  CASE n.k = "lit" -> IF LitAt(n.w, s, w.e, ic)
                      THEN <<[e |-> w.e + Len(n.w), g |-> w.g]>>
                      ELSE <<>>
    [] n.k = "set" -> SetWays(n, w, Run(n, s, w.e, ic))
    [] n.k = "grp" ->
         Optional(n, w, Closed(n, w, FirstByEnd(Flat([a \in 1..Len(n.alts) |->
                                   Ways(n.alts[a], s, ic, 1, Len(n.alts[a]), <<w>>)]))))
    [] n.k = "star" ->
         \* turn[q]: where one turn of the group that starts at q and takes some text can end
         Carry(StarTable([q \in 1..(Len(s) + 1) |->
                            IF q < w.e THEN <<>>
                            ELSE SelectSeq(FirstByEnd(Flat([a \in 1..Len(n.alts) |->
                                             Ways(n.alts[a], s, ic, 1, Len(n.alts[a]),
                                                  <<[e |-> q, g |-> <<>>]>>)])),
                                           LAMBDA m : m.e > q)],
                         w.e, Len(s) + 1, [q \in 1..(Len(s) + 1) |-> <<>>])[w.e],
               w.g)
    [] n.k = "look" -> IF Ways(n.re, s, ic, 1, Len(n.re), <<w>>) # <<>> THEN <<w>> ELSE <<>>
    [] n.k = "adv" -> IF w.e > n.from THEN <<w>> ELSE <<>>
    [] n.k = "bol" -> IF w.e = 1 THEN <<w>> ELSE <<>>
    [] n.k = "eol" -> IF w.e = Len(s) + 1 \/ (w.e = Len(s) /\ s[w.e] = "\n") THEN <<w>> ELSE <<>>
\* (?:a1|a2|...)* from each position lo..hi: where the turns of the group can end, in the
\* order the backtracking tries them: one more turn, by the first alternative first, before
\* no turn.  The positions to the right are filled in first.
StarTable(turn, lo, hi, table) ==
  Then(turn, Then(table,
       IF lo < hi
       THEN StarTable(turn, lo, (lo + hi) \div 2, StarTable(turn, (lo + hi) \div 2 + 1, hi, table))
       ELSE [table EXCEPT ![lo] =
               IF turn[lo] = <<>> THEN <<[e |-> lo]>>
               ELSE FirstByEnd(Flat([t \in 1..Len(turn[lo]) |-> table[turn[lo][t].e]])
                               \o <<[e |-> lo]>>)]))

\* the first of the ways of a match that starts at i, or NoMatch
FirstWay(i, ways) ==
  IF ways = <<>> THEN NoMatch ELSE [s |-> i, e |-> ways[1].e, g |-> ways[1].g]
\* the match of pattern re at position i of s with the groups g unset, or NoMatch: the
\* first way
MatchAt(re, s, i, g, ic) == FirstWay(i, Ways(re, s, ic, 1, Len(re), <<[e |-> i, g |-> g]>>))
\* the match at each position of s with ng capture groups; from = 0, or from = 1 for the
\* matches that take some text
AtTable(re, ng, s, ic, from) ==
  [p \in 1..(Len(s) + 1) |->
     MatchAt(re \o (IF from = 1 THEN <<[k |-> "adv", from |-> p]>> ELSE <<>>), s, p,
             [j \in 1..ng |-> Unset], ic)]

\* one position of the scan of re.finditer: a match is sought where the last one ended,
\* and after an empty match a non-empty one at the same place; at[p] is the match at p,
\* on[p] the non-empty one
ScanStep(at, on, p, st) ==
  IF p # st.pos THEN st
  ELSE IF at[p].e = 0 THEN [pos |-> p + 1, ms |-> st.ms]
  ELSE IF at[p].e > p THEN [pos |-> at[p].e, ms |-> Append(st.ms, at[p])]
  ELSE IF on[p].e # 0 THEN [pos |-> on[p].e, ms |-> st.ms \o <<at[p], on[p]>>]
  ELSE [pos |-> p + 1, ms |-> Append(st.ms, at[p])]
\* the scan over the positions lo..hi, left to right
RECURSIVE Scan(_, _, _, _, _)
Scan(at, on, lo, hi, st) ==
  IF st.pos > hi THEN st
  ELSE IF lo < hi
  THEN Scan(at, on, (lo + hi) \div 2 + 1, hi, Scan(at, on, lo, (lo + hi) \div 2, st))
  ELSE ScanStep(at, on, lo, st)
\* the matches the scan of s finds
Scanned(s, at, on) ==
  Then(s, Then(at, Scan(at, on, 1, Len(s) + 1, [pos |-> 1, ms |-> <<>>]).ms))

\* re.finditer(re, s): the non-overlapping matches, left to right; ng capture groups
FindIter(re, ng, s, ic) ==
  Scanned(s, AtTable(re, ng, s, ic, 0), AtTable(re, ng, s, ic, 1))
\* the match at the leftmost position that has one
Leftmost(at) ==
  IF \A p \in DOMAIN at : at[p].e = 0 THEN NoMatch
  ELSE at[CHOOSE p \in DOMAIN at : at[p].e # 0 /\ \A q \in 1..(p - 1) : at[q].e = 0]
\* re.search(re, s): the match at the leftmost position that has one
Search(re, ng, s, ic) == Then(s, Leftmost(AtTable(re, ng, s, ic, 0)))
Found(m) == m.e # 0
\* match.group(j)
Group(m, s, j) == Slice(s, m.g[j][1], m.g[j][2])
\* match.group(0)
Group0(m, s) == Slice(s, m.s, m.e)

\* the pieces of s between the matches ms
Pieces(s, ms) ==
  Then(ms, [k \in 1..(Len(ms) + 1) |->
              Slice(s, IF k = 1 THEN 1 ELSE ms[k - 1].e,
                       IF k > Len(ms) THEN Len(s) + 1 ELSE ms[k].s)])
\* re.split(re, s) for a pattern without capture groups
Split(re, s, ic) == Pieces(s, FindIter(re, 0, s, ic))

\* sep.join(parts)
Join(sep, parts) ==
  Then(parts, Concat([k \in 1..(2 * Len(parts) - 1) |->
                        IF k % 2 = 1 THEN parts[(k + 1) \div 2] ELSE sep],
                     1, 2 * Len(parts) - 1))

\* re.sub(re, repl, s) for a plain replacement
Sub(re, repl, s, ic) == Then(s, Join(repl, Split(re, s, ic)))

\* str.replace(old, new), old non-empty
Replace(s, old, new) == Sub(<<[k |-> "lit", w |-> old]>>, new, s, FALSE)
\* str.split(sep)
SplitChar(s, sep) == Split(<<[k |-> "lit", w |-> <<sep>>]>>, s, FALSE)

\* \s+
WhitespaceRun == Cls(Whitespace, 1, Unbounded)
\* <[^>]+>
HtmlTag == Lit(<<"<">>) \o NotCls({">"}, 1, Unbounded) \o Lit(<<">">>)
\* \d+(?:[.,]\d+)?
Number == Cls(Digit, 1, Unbounded)
          \o Grp(0, <<Cls({".", ","}, 1, 1) \o Cls(Digit, 1, Unbounded)>>, 0, 1)

----------------------------------------------------------------------------
(* models/enterprise.py and models/review.py: pydantic models.  A field's  *)
(* Field(...) constraints are checked on the input value first; the        *)
(* field_validator (mode "after") runs only on a value that passed them,   *)
(* and what it returns is stored.  A ValueError from a validator and a     *)
(* violated constraint both make the construction fail.                    *)

Valid(v) == [ok |-> TRUE, v |-> v, error |-> ""]
Invalid(e) == [ok |-> FALSE, v |-> None, error |-> e]

\* ^[^\w\s]+|[^\w\s]+$
EdgeSpecialChars ==
  Grp(0, <<Bol \o NotCls(WordChar \cup Whitespace, 1, Unbounded),
           NotCls(WordChar \cup Whitespace, 1, Unbounded) \o Eol>>, 1, 1)

\* Enterprise.name: Field(..., min_length=1, max_length=200)
Enterprise_name_Field(v) ==
  IF Len(v) < 1 THEN Invalid("string_too_short")
  ELSE IF Len(v) > 200 THEN Invalid("string_too_long")
  ELSE Valid(v)

\* validate_name without its emptiness check
validate_name_unchecked(v) ==
  Valid(Sub(EdgeSpecialChars, <<>>,
            Sub(HtmlTag, <<>>, Sub(WhitespaceRun, <<" ">>, Strip(v), FALSE), FALSE), FALSE))

\* Enterprise.validate_name
validate_name(v) ==
  IF Len(v) = 0 \/ Len(Strip(v)) = 0
  THEN Invalid("value_error")
  ELSE Let(Strip(v),
           LAMBDA v1 :
       Let(Sub(WhitespaceRun, <<" ">>, v1, FALSE),
           LAMBDA v2 :
       Let(Sub(HtmlTag, <<>>, v2, FALSE),
           LAMBDA v3 :
       Let(Sub(EdgeSpecialChars, <<>>, v3, FALSE),
           LAMBDA v4 :
       Valid(v4)))))

\* round(v, 1) of a rating given in hundredths whose second decimal is not 5
Round1(v) == ((v + 5) \div 10) * 10

\* Enterprise.rating: Optional[float] = Field(None, ge=0.0, le=5.0), in hundredths
Enterprise_rating_Field(v) ==
  IF IsNone(v) THEN Valid(v)
  ELSE IF Val(v) < 0 THEN Invalid("greater_than_equal")
  ELSE IF Val(v) > 500 THEN Invalid("less_than_equal")
  ELSE Valid(v)

\* Enterprise.validate_rating
Enterprise_validate_rating(v) ==
  IF IsNone(v) THEN Valid(None)
  ELSE Let(Round1(Val(v)),
           LAMBDA r :
       IF r < 0 \/ r > 500 THEN Valid(None) ELSE Valid(Some(r)))

\* one field: the Field constraints, then the validator
Field(constraint(_), validator(_), v) ==
  Let(constraint(v),
      LAMBDA c :
  IF c.ok THEN validator(c.v) ELSE c)

\* Review.rating: Optional[int] = Field(None, ge=1, le=5)
Review_rating_Field(v) ==
  IF IsNone(v) THEN Valid(v)
  ELSE IF Val(v) < 1 THEN Invalid("greater_than_equal")
  ELSE IF Val(v) > 5 THEN Invalid("less_than_equal")
  ELSE Valid(v)

\* Review.validate_rating
Review_validate_rating(v) ==
  IF IsNone(v) THEN Valid(None)
  ELSE IF Val(v) < 1 \/ Val(v) > 5 THEN Invalid("value_error")
  ELSE Valid(v)

\* Review.author: Field(..., min_length=1, max_length=100)
Review_author_Field(v) ==
  IF Len(v) < 1 THEN Invalid("string_too_short")
  ELSE IF Len(v) > 100 THEN Invalid("string_too_long")
  ELSE Valid(v)

\* Review.validate_author
validate_author(v) ==
  IF Len(v) = 0 \/ Len(Strip(v)) = 0
  THEN Invalid("value_error")
  ELSE Valid(Sub(WhitespaceRun, <<" ">>, Strip(v), FALSE))

\* Review built without validating the rating
Review_rating_unvalidated(data) ==
  Let(Field(Review_author_Field, validate_author, data.author),
      LAMBDA author :
  IF ~author.ok THEN [ok |-> FALSE, error |-> author.error, field |-> "author"]
  ELSE [ok |-> TRUE, author |-> author.v, rating |-> data.rating])

\* Review(author=..., rating=...)
Review(data) ==
  Let(Field(Review_author_Field, validate_author, data.author),
      LAMBDA author :
  Let(Field(Review_rating_Field, Review_validate_rating, data.rating),
      LAMBDA rating :
  IF ~author.ok THEN [ok |-> FALSE, error |-> author.error, field |-> "author"]
  ELSE IF ~rating.ok THEN [ok |-> FALSE, error |-> rating.error, field |-> "rating"]
  ELSE [ok |-> TRUE, author |-> author.v, rating |-> rating.v]))

\* Review.is_positive: None without a rating, else rating >= 4
is_positive(self) ==
  IF IsNone(self.rating) THEN None ELSE Some(Val(self.rating) >= 4)

\* is_negative with the bound of is_positive
is_negative_below_four(self) ==
  IF IsNone(self.rating) THEN None ELSE Some(Val(self.rating) <= 4)

\* Review.is_negative: None without a rating, else rating <= 2
is_negative(self) ==
  IF IsNone(self.rating) THEN None ELSE Some(Val(self.rating) <= 2)

----------------------------------------------------------------------------
(* parser/base_parser.py: ParseResult and BaseParser.  A confidence is a   *)
(* whole number of 1/6000: every sum, product and quotient the parsers     *)
(* form of their weights is exact in this unit.                            *)

One == 10 * 600
\* n tenths: 0.1 * n
Tenths(n) == n * (One \div 10)

\* a value a function returns, or the exception it raises
Returned(v) == [raised |-> FALSE, v |-> v, exc |-> ""]
Raised(e) == [raised |-> TRUE, v |-> None, exc |-> e]

\* a Python value passed by a caller: a str, or something that is no str
Str(s) == [t |-> "str", v |-> s]
NotStr == [t |-> "int", v |-> <<>>]
NoneArg == [t |-> "NoneType", v |-> <<>>]
\* not x
Falsy(x) == \/ x.t = "NoneType"
            \/ x.t = "str" /\ Len(x.v) = 0
            \/ x.t = "dict" /\ DOMAIN x.v = {}

\* the empty dict {} and the empty list []
EmptyDict == <<>>
EmptyList == <<>>

\* ParseResult(success=..., data=..., confidence=...), errors and warnings empty
ParseResult(success, data, confidence) ==
  [success |-> success, data |-> data, errors |-> <<>>, warnings |-> <<>>,
   confidence |-> confidence]

\* BaseParser.create_result(data, success=True, confidence=1.0)
create_result(data, success, confidence) == ParseResult(success, data, confidence)

\* ParseResult.add_error
add_error(self, error) ==
  [self EXCEPT !.errors = Append(@, error), !.success = FALSE]

\* ParseResult.add_warning
add_warning(self, warning) ==
  [self EXCEPT !.warnings = Append(@, warning),
               !.confidence = IF @ > Tenths(7) THEN Tenths(7) ELSE @]

\* obj[key] on a ParseResult: a pydantic BaseModel defines no __getitem__
ParseResult_getitem(obj, key) == Raised("TypeError")

\* \n\s*\n
BlankLine == Lit(<<"\n">>) \o Cls(Whitespace, 0, Unbounded) \o Lit(<<"\n">>)

\* BaseParser.clean_text(text, remove_html, normalize_whitespace) of a str
clean_text_flags(text, remove_html, normalize_whitespace) ==
  IF Len(text) = 0 THEN <<>>
  ELSE Let(Strip(text),
           LAMBDA r0 :
       Let(IF remove_html THEN Sub(HtmlTag, <<>>, r0, FALSE) ELSE r0,
           LAMBDA r1 :
       Let(IF normalize_whitespace
           THEN Sub(BlankLine, <<"\n", "\n">>, Sub(WhitespaceRun, <<" ">>, r1, FALSE), FALSE)
           ELSE r1,
           LAMBDA r2 :
       Strip(r2))))

\* BaseParser.clean_text(text) with the default flags
clean_text(text) == clean_text_flags(text, TRUE, TRUE)

\* BaseParser.clean_text(x) of any value: "" for what is not a str
clean_text_any(x) == IF x.t = "str" THEN clean_text(x.v) ELSE <<>>

----------------------------------------------------------------------------
(* parser/base_parser.py TextNormalizer and parser/service_parser.py       *)

\* the words of the currency table
W_rub == <<"ru_r", "ru_u", "ru_b">>
W_rublej == <<"ru_r", "ru_u", "ru_b", "ru_l", "ru_e", "ru_j">>
W_rublya == <<"ru_r", "ru_u", "ru_b", "ru_l", "ru_ya">>
W_ot == <<"ru_o", "ru_t">>
W_do == <<"ru_d", "ru_o">>

\* TextNormalizer.normalize_price_text: its currency_map, in dict order
currency_map == << <<<<"RUB">>, <<" ">> \o W_rub>>,
                   <<W_rublej, <<" ">> \o W_rub>>,
                   <<W_rublya, <<" ">> \o W_rub>>,
                   <<W_rub \o <<".">>, <<" ">> \o W_rub>>,
                   <<<<"ru_r", ".">>, <<" ">> \o W_rub>> >>

RECURSIVE ReplaceAll(_, _, _)
ReplaceAll(s, table, i) ==
  IF i > Len(table) THEN s
  ELSE ReplaceAll(Replace(s, table[i][1], table[i][2]), table, i + 1)

\* TextNormalizer.normalize_price_text
normalize_price_text(price_text) ==
  IF Len(price_text) = 0 THEN <<>>
  ELSE Strip(ReplaceAll(Sub(WhitespaceRun, <<" ">>, Strip(price_text), FALSE), currency_map, 1))

\* float(s.replace(",", ".")) of a number text, as the fraction n / d
RECURSIVE Pow10(_)
Pow10(k) == IF k = 0 THEN 1 ELSE 10 * Pow10(k - 1)
DigitsOf(s) == SelectSeq(s, LAMBDA c : c \in Digit)
FractionLen(s) ==
  IF \E i \in 1..Len(s) : s[i] \in {".", ","}
  THEN Len(s) - (CHOOSE i \in 1..Len(s) : s[i] \in {".", ","})
  ELSE 0
ToFloat(s) == [n |-> ToInt(DigitsOf(s)), d |-> Pow10(FractionLen(s))]
FloatLess(a, b) == a.n * b.d < b.n * a.d
\* str(int(x))
IntStr(x) == ToStr(x.n \div x.d)

\* (\d+(?:[.,]\d+)?)\s*[-–—]\s*(\d+(?:[.,]\d+)?)
PriceRangeRe == Grp(1, <<Number>>, 1, 1) \o Cls(Whitespace, 0, Unbounded) \o Cls(Dashes, 1, 1)
                \o Cls(Whitespace, 0, Unbounded) \o Grp(2, <<Number>>, 1, 1)
\* от\s*(\d+(?:[.,]\d+)?)
PriceFromRe == Lit(W_ot) \o Cls(Whitespace, 0, Unbounded) \o Grp(1, <<Number>>, 1, 1)
\* до\s*(\d+(?:[.,]\d+)?)
PriceToRe == Lit(W_do) \o Cls(Whitespace, 0, Unbounded) \o Grp(1, <<Number>>, 1, 1)
\* (\d+(?:[.,]\d+)?)
SimplePriceRe == Grp(1, <<Number>>, 1, 1)
\* (\d+)
FirstDigitsRe == Grp(1, <<Cls(Digit, 1, Unbounded)>>, 1, 1)

\* is_reasonable_price with the lower bound itself unreasonable
is_reasonable_price_above_min(price_str) ==
  Let(ToInt(price_str),
      LAMBDA price :
  50 < price /\ price <= 500000)

\* is_reasonable_price
is_reasonable_price(price_str) ==
  Let(ToInt(price_str),
      LAMBDA price :
  50 <= price /\ price <= 500000)

\* the prices _validate_price_reasonableness counts: those whose text, with
\* "от " and "до " removed, starts with digits up to the first "-"
CountedPrice(price) ==
  /\ ~IsNone(price)
  /\ Len(Val(price)) > 0
  /\ IsDigitStr(SplitChar(Replace(Replace(Val(price), W_ot \o <<" ">>, <<>>),
                                  W_do \o <<" ">>, <<>>), "-")[1])
ReasonablePrice(price) ==
  Let(Search(FirstDigitsRe, 1, Val(price), FALSE),
      LAMBDA numeric_price :
  Found(numeric_price) /\ is_reasonable_price(Group(numeric_price, Val(price), 1)))

\* ServiceParser._validate_price_reasonableness
validate_price_reasonableness(price_data, current_confidence) ==
  Let(<<price_data.price, price_data.price_from, price_data.price_to>>,
      LAMBDA prices_to_check :
  Let({i \in 1..3 : CountedPrice(prices_to_check[i])},
      LAMBDA counted :
  Let(Cardinality(counted),
      LAMBDA total_count :
  Let(Cardinality({i \in counted : ReasonablePrice(prices_to_check[i])}),
      LAMBDA reasonable_count :
  IF total_count = 0 THEN 0
  ELSE (current_confidence * reasonable_count) \div total_count))))

NoPrice == [price |-> None, price_from |-> None, price_to |-> None]

\* ServiceParser.parse_price, the price found and its confidence before validation
FoundPrice(normalized_text) ==
  Let(Search(PriceRangeRe, 2, normalized_text, FALSE),
      LAMBDA range_match :
  Let(ToFloat(Group(range_match, normalized_text, 1)),
      LAMBDA range_from :
  Let(ToFloat(Group(range_match, normalized_text, 2)),
      LAMBDA range_to :
  Let(Search(PriceFromRe, 1, normalized_text, FALSE),
      LAMBDA from_match :
  Let(Search(PriceToRe, 1, normalized_text, FALSE),
      LAMBDA to_match :
  Let(Search(SimplePriceRe, 1, normalized_text, FALSE),
      LAMBDA simple_price_match :
  IF Found(range_match) /\ FloatLess(range_from, range_to)
  THEN [data |-> [price |-> Some(IntStr(range_from) \o <<"-">> \o IntStr(range_to)),
                  price_from |-> Some(IntStr(range_from)),
                  price_to |-> Some(IntStr(range_to))],
        confidence |-> Tenths(9)]
  ELSE IF Found(from_match)
  THEN Let(IntStr(ToFloat(Group(from_match, normalized_text, 1))),
           LAMBDA price_from :
       [data |-> [price |-> Some(W_ot \o <<" ">> \o price_from),
                  price_from |-> Some(price_from),
                  price_to |-> None],
        confidence |-> Tenths(8)])
  ELSE IF Found(to_match)
  THEN Let(IntStr(ToFloat(Group(to_match, normalized_text, 1))),
           LAMBDA price_to :
       [data |-> [price |-> Some(W_do \o <<" ">> \o price_to),
                  price_from |-> None,
                  price_to |-> Some(price_to)],
        confidence |-> Tenths(8)])
  ELSE IF Found(simple_price_match)
  THEN [data |-> [price |-> Some(IntStr(ToFloat(Group(simple_price_match, normalized_text, 1)))),
                  price_from |-> None,
                  price_to |-> None],
        confidence |-> Tenths(7)]
  ELSE [data |-> NoPrice, confidence |-> 0]))))))

\* ServiceParser.parse_price
parse_price(price_text) ==
  IF Len(price_text) = 0
  THEN create_result(EmptyDict, FALSE, One)
  ELSE Let(FoundPrice(normalize_price_text(price_text)),
           LAMBDA found :
       Let(IF found.confidence > 0
           THEN validate_price_reasonableness(found.data, found.confidence)
           ELSE 0,
           LAMBDA confidence :
       create_result(found.data, confidence > 0, confidence)))

\* the separators of ServiceParser._split_services, in the order tried
ServiceSeparators == <<
  \* \n\s*[-•*]\s*
  Lit(<<"\n">>) \o Cls(Whitespace, 0, Unbounded) \o Cls({"-", "BULLET", "*"}, 1, 1)
     \o Cls(Whitespace, 0, Unbounded),
  \* \n\s*\d+\.\s*
  Lit(<<"\n">>) \o Cls(Whitespace, 0, Unbounded) \o Cls(Digit, 1, Unbounded) \o Lit(<<".">>)
     \o Cls(Whitespace, 0, Unbounded),
  \* \n\s*\d+\)\s*
  Lit(<<"\n">>) \o Cls(Whitespace, 0, Unbounded) \o Cls(Digit, 1, Unbounded) \o Lit(<<")">>)
     \o Cls(Whitespace, 0, Unbounded),
  \* \n{2,}
  Cls({"\n"}, 2, Unbounded),
  \* ;\s*
  Lit(<<";">>) \o Cls(Whitespace, 0, Unbounded),
  \* \|\s*
  Lit(<<"|">>) \o Cls(Whitespace, 0, Unbounded) >>

\* the cleaned pieces of a split that are longer than min_len
CleanedItems(items, min_len) ==
  SelectSeq([i \in 1..Len(items) |-> clean_text(items[i])], LAMBDA c : Len(c) > min_len)

\* ServiceParser._split_services, from separator k on
RECURSIVE split_services_from(_, _)
split_services_from(text, k) ==
  IF k > Len(ServiceSeparators)
  THEN IF Len(Strip(text)) > 0 THEN <<text>> ELSE <<>>
  ELSE Let(Split(ServiceSeparators[k], text, FALSE),
           LAMBDA items :
       Let(CleanedItems(items, 5),
           LAMBDA cleaned_items :
       IF Len(items) > 1 /\ Len(cleaned_items) > 1
       THEN cleaned_items
       ELSE split_services_from(text, k + 1)))

\* ServiceParser._split_services
split_services(text) == split_services_from(text, 1)

\* ServiceParser._parse_single_service: for a text of 3 characters or more it
\* reads price_info["success"] of the ParseResult that parse_price returned,
\* which raises; the rest of the method is never reached
parse_single_service(service_text) ==
  IF Len(service_text) = 0 \/ Len(Strip(service_text)) < 3
  THEN Returned(None)
  ELSE Let(parse_price(service_text),
           LAMBDA price_info :
       ParseResult_getitem(price_info, "success"))

\* the loop of ServiceParser.parse over the service items
RECURSIVE parse_service_items(_, _, _, _)
parse_service_items(items, i, parsed_services, total_confidence) ==
  IF i > Len(items)
  THEN Returned([parsed_services |-> parsed_services, total_confidence |-> total_confidence])
  ELSE Let(parse_single_service(items[i]),
           LAMBDA service_data :
       IF service_data.raised THEN service_data
       ELSE IF IsNone(service_data.v)
       THEN parse_service_items(items, i + 1, parsed_services, total_confidence)
       ELSE parse_service_items(items, i + 1,
                                Append(parsed_services, Val(service_data.v).data),
                                total_confidence + Val(service_data.v).confidence))

\* ServiceParser.parse, the body of its try block
ServiceParser_try(raw_data) ==
  Let(clean_text_any(raw_data),
      LAMBDA clean_data :
  Let(split_services(clean_data),
      LAMBDA service_items :
  Let(parse_service_items(service_items, 1, <<>>, 0),
      LAMBDA loop :
  IF loop.raised THEN loop
  ELSE Let(IF Len(service_items) > 0
           THEN loop.v.total_confidence \div Len(service_items)
           ELSE 0,
           LAMBDA avg_confidence :
       Returned(create_result(loop.v.parsed_services,
                              Len(loop.v.parsed_services) > 0, avg_confidence))))))

\* a try block without its except clause: the exception goes on to the caller
Except_missing(body, empty_data, message) == body

\* try: ... except Exception as e: the failed result with the error message
Except(body, empty_data, message) ==
  IF body.raised
  THEN Returned(add_error(create_result(empty_data, FALSE, 0), <<message, body.exc>>))
  ELSE body

\* ServiceParser.parse
ServiceParser_parse(raw_data) ==
  IF Falsy(raw_data)
  THEN Returned(create_result(EmptyList, FALSE, 0))
  ELSE Except(ServiceParser_try(raw_data), EmptyList, "service parsing error")

----------------------------------------------------------------------------
(* parser/schedule_parser.py                                               *)

\* ScheduleParser.WEEKDAYS, in dict order, and the words of the patterns
WEEKDAYS == <<
  <<<<"ru_p", "ru_o", "ru_n", "ru_e", "ru_d", "ru_e", "ru_l", "ru_soft", "ru_n", "ru_i", "ru_k">>, "monday">>,
  <<<<"ru_v", "ru_t", "ru_o", "ru_r", "ru_n", "ru_i", "ru_k">>, "tuesday">>,
  <<<<"ru_s", "ru_r", "ru_e", "ru_d", "ru_a">>, "wednesday">>,
  <<<<"ru_ch", "ru_e", "ru_t", "ru_v", "ru_e", "ru_r", "ru_g">>, "thursday">>,
  <<<<"ru_p", "ru_ya", "ru_t", "ru_n", "ru_i", "ru_c", "ru_a">>, "friday">>,
  <<<<"ru_s", "ru_u", "ru_b", "ru_b", "ru_o", "ru_t", "ru_a">>, "saturday">>,
  <<<<"ru_v", "ru_o", "ru_s", "ru_k", "ru_r", "ru_e", "ru_s", "ru_e", "ru_n", "ru_soft", "ru_e">>, "sunday">>,
  <<<<"ru_p", "ru_n">>, "monday">>,
  <<<<"ru_v", "ru_t">>, "tuesday">>,
  <<<<"ru_s", "ru_r">>, "wednesday">>,
  <<<<"ru_ch", "ru_t">>, "thursday">>,
  <<<<"ru_p", "ru_t">>, "friday">>,
  <<<<"ru_s", "ru_b">>, "saturday">>,
  <<<<"ru_v", "ru_s">>, "sunday">>,
  <<<<"m", "o", "n", "d", "a", "y">>, "monday">>,
  <<<<"t", "u", "e", "s", "d", "a", "y">>, "tuesday">>,
  <<<<"w", "e", "d", "n", "e", "s", "d", "a", "y">>, "wednesday">>,
  <<<<"t", "h", "u", "r", "s", "d", "a", "y">>, "thursday">>,
  <<<<"f", "r", "i", "d", "a", "y">>, "friday">>,
  <<<<"s", "a", "t", "u", "r", "d", "a", "y">>, "saturday">>,
  <<<<"s", "u", "n", "d", "a", "y">>, "sunday">>,
  <<<<"m", "o", "n">>, "monday">>,
  <<<<"t", "u", "e">>, "tuesday">>,
  <<<<"w", "e", "d">>, "wednesday">>,
  <<<<"t", "h", "u">>, "thursday">>,
  <<<<"f", "r", "i">>, "friday">>,
  <<<<"s", "a", "t">>, "saturday">>,
  <<<<"s", "u", "n">>, "sunday">> >>
W_vyhodnoj == <<"ru_v", "ru_y", "ru_h", "ru_o", "ru_d", "ru_n", "ru_o", "ru_j">>
W_zakryt == <<"ru_z", "ru_a", "ru_k", "ru_r", "ru_y", "ru_t">>
W_ne == <<"ru_n", "ru_e">>
W_rabota == <<"ru_r", "ru_a", "ru_b", "ru_o", "ru_t", "ru_a">>
W_kruglosutochno == <<"ru_k", "ru_r", "ru_u", "ru_g", "ru_l", "ru_o", "ru_s", "ru_u", "ru_t",
    "ru_o", "ru_ch", "ru_n", "ru_o">>
W_chasa == <<"ru_ch", "ru_a", "ru_s", "ru_a">>
W_otkryt == <<"ru_o", "ru_t", "ru_k", "ru_r", "ru_y", "ru_t">>
W_rabotaet == <<"ru_r", "ru_a", "ru_b", "ru_o", "ru_t", "ru_a", "ru_e", "ru_t">>
W_budni == <<"ru_b", "ru_u", "ru_d", "ru_n", "ru_i">>
W_vyhodnye == <<"ru_v", "ru_y", "ru_h", "ru_o", "ru_d", "ru_n", "ru_y", "ru_e">>
W_rabochie == <<"ru_r", "ru_a", "ru_b", "ru_o", "ru_ch", "ru_i", "ru_e">>
W_dni == <<"ru_d", "ru_n", "ru_i">>
S_Vyhodnoj == <<"RU_V", "ru_y", "ru_h", "ru_o", "ru_d", "ru_n", "ru_o", "ru_j">>
S_Kruglosutochno == <<"RU_K", "ru_r", "ru_u", "ru_g", "ru_l", "ru_o", "ru_s", "ru_u", "ru_t",
    "ru_o", "ru_ch", "ru_n", "ru_o">>
S_Otkryto == <<"RU_O", "ru_t", "ru_k", "ru_r", "ru_y", "ru_t", "ru_o">>
S_Zakryto == <<"RU_Z", "ru_a", "ru_k", "ru_r", "ru_y", "ru_t", "ru_o">>
S_Otkryto_do == <<"RU_O", "ru_t", "ru_k", "ru_r", "ru_y", "ru_t", "ru_o", " ", "ru_d", "ru_o", " ">>
S_Otkryto_s == <<"RU_O", "ru_t", "ru_k", "ru_r", "ru_y", "ru_t", "ru_o", " ", "ru_s", " ">>
S_Zakryto_do == <<"RU_Z", "ru_a", "ru_k", "ru_r", "ru_y", "ru_t", "ru_o", " ", "ru_d", "ru_o", " ">>
S_Rabotaet_do == <<"RU_R", "ru_a", "ru_b", "ru_o", "ru_t", "ru_a", "ru_e", "ru_t", " ", "ru_d",
    "ru_o", " ">>
W_pn == <<"ru_p", "ru_n">>
W_ponedelnik == <<"ru_p", "ru_o", "ru_n", "ru_e", "ru_d", "ru_e", "ru_l", "ru_soft", "ru_n", "ru_i",
    "ru_k">>
W_pt == <<"ru_p", "ru_t">>
W_pyatnica == <<"ru_p", "ru_ya", "ru_t", "ru_n", "ru_i", "ru_c", "ru_a">>
W_sb == <<"ru_s", "ru_b">>
W_subbota == <<"ru_s", "ru_u", "ru_b", "ru_b", "ru_o", "ru_t", "ru_a">>
W_vs == <<"ru_v", "ru_s">>
W_voskresene == <<"ru_v", "ru_o", "ru_s", "ru_k", "ru_r", "ru_e", "ru_s", "ru_e", "ru_n", "ru_soft",
    "ru_e">>
note_indicators == {
  <<"ru_p", "ru_r", "ru_i", "ru_m", "ru_e", "ru_ch", "ru_a", "ru_n", "ru_i", "ru_e">>,
  <<"ru_v", "ru_n", "ru_i", "ru_m", "ru_a", "ru_n", "ru_i", "ru_e">>,
  <<"ru_o", "ru_b", "ru_r", "ru_a", "ru_t", "ru_i", "ru_t", "ru_e", " ", "ru_v", "ru_n", "ru_i", "ru_m", "ru_a", "ru_n", "ru_i", "ru_e">>,
  <<"ru_v", "ru_a", "ru_zh", "ru_n", "ru_o">>,
  <<"ru_u", "ru_t", "ru_o", "ru_ch", "ru_n", "ru_e", "ru_n", "ru_i", "ru_e">>,
  <<"ru_d", "ru_o", "ru_p", "ru_o", "ru_l", "ru_n", "ru_i", "ru_t", "ru_e", "ru_l", "ru_soft", "ru_n", "ru_o">>,
  <<"ru_v", " ", "ru_p", "ru_r", "ru_a", "ru_z", "ru_d", "ru_n", "ru_i", "ru_ch", "ru_n", "ru_y", "ru_e", " ", "ru_d", "ru_n", "ru_i">>,
  <<"ru_v", " ", "ru_p", "ru_r", "ru_a", "ru_z", "ru_d", "ru_n", "ru_i", "ru_k", "ru_i">>,
  <<"ru_l", "ru_e", "ru_t", "ru_n", "ru_i", "ru_j", " ", "ru_r", "ru_e", "ru_zh", "ru_i", "ru_m">>,
  <<"ru_z", "ru_i", "ru_m", "ru_n", "ru_i", "ru_j", " ", "ru_r", "ru_e", "ru_zh", "ru_i", "ru_m">>,
  <<"ru_m", "ru_o", "ru_zh", "ru_e", "ru_t", " ", "ru_i", "ru_z", "ru_m", "ru_e", "ru_n", "ru_ya", "ru_t", "ru_soft", "ru_s", "ru_ya">>,
  <<"ru_u", "ru_t", "ru_o", "ru_ch", "ru_n", "ru_ya", "ru_j", "ru_t", "ru_e">> }

\* a dict: a function on its keys; d.update(e)
Update(d, e) == e @@ d
EmptySchedule == <<>>
DayKeys == {"monday", "tuesday", "wednesday", "thursday", "friday", "saturday", "sunday"}
day_order == <<"monday", "tuesday", "wednesday", "thursday", "friday", "saturday", "sunday">>

\* str.zfill(2)
ZFill2(s) == IF Len(s) < 2 THEN <<"0">> \o s ELSE s
\* f"{n:02d}"
Fmt02(n) == ZFill2(ToStr(n))

\* (\d{1,2}):?(\d{0,2}) as groups g and g + 1
HourMinute(g) == Grp(g, <<Cls(Digit, 1, 2)>>, 1, 1) \o Cls({":"}, 0, 1)
                 \o Grp(g + 1, <<Cls(Digit, 0, 2)>>, 1, 1)
\* открыт[оа]?
OpenWord == Lit(W_otkryt) \o Cls({"ru_o", "ru_a"}, 0, 1)
\* закрыт[оа]?
ClosedWord == Lit(W_zakryt) \o Cls({"ru_o", "ru_a"}, 0, 1)

\* ScheduleParser.STATUS_PATTERNS: pattern, number of groups, status type
STATUS_PATTERNS == <<
  [re |-> OpenWord \o Cls(Whitespace, 0, Unbounded) \o Lit(W_do) \o Cls(Whitespace, 0, Unbounded)
          \o HourMinute(1), ng |-> 2, type |-> "open_until"],
  [re |-> OpenWord \o Cls(Whitespace, 0, Unbounded) \o Lit(<<"ru_s">>)
          \o Cls(Whitespace, 0, Unbounded) \o HourMinute(1), ng |-> 2, type |-> "open_from"],
  [re |-> ClosedWord \o Cls(Whitespace, 0, Unbounded) \o Lit(W_do)
          \o Cls(Whitespace, 0, Unbounded) \o HourMinute(1), ng |-> 2, type |-> "closed_until"],
  [re |-> Lit(W_rabotaet) \o Cls(Whitespace, 0, Unbounded) \o Lit(W_do)
          \o Cls(Whitespace, 0, Unbounded) \o HourMinute(1), ng |-> 2, type |-> "working_until"],
  [re |-> OpenWord, ng |-> 0, type |-> "open"],
  [re |-> ClosedWord, ng |-> 0, type |-> "closed"],
  [re |-> Grp(0, <<Lit(W_kruglosutochno), Lit(<<"2", "4", "/", "7">>)>>, 1, 1), ng |-> 0,
   type |-> "always_open"] >>

\* the status text for a match of a pattern of the given type
StatusText(type, m, text) ==
  Let(Group(m, text, 1),
      LAMBDA hour :
  Let(IF Len(Group(m, text, 2)) > 0 THEN Group(m, text, 2) ELSE <<"0", "0">>,
      LAMBDA minute :
  Let(hour \o <<":">> \o ZFill2(minute),
      LAMBDA time :
  CASE type = "open_until" -> S_Otkryto_do \o time
    [] type = "open_from" -> S_Otkryto_s \o time
    [] type = "closed_until" -> S_Zakryto_do \o time
    [] type = "working_until" -> S_Rabotaet_do \o time
    [] type = "open" -> S_Otkryto
    [] type = "closed" -> S_Zakryto
    [] type = "always_open" -> S_Kruglosutochno)))

RECURSIVE parse_current_status_from(_, _)
parse_current_status_from(text_lower, k) ==
  IF k > Len(STATUS_PATTERNS) THEN None
  ELSE Let(STATUS_PATTERNS[k],
           LAMBDA p :
       Let(Search(p.re, p.ng, text_lower, FALSE),
           LAMBDA m :
       IF Found(m) THEN Some(StatusText(p.type, m, text_lower))
       ELSE parse_current_status_from(text_lower, k + 1)))

\* ScheduleParser._parse_current_status
parse_current_status(text) ==
  IF Len(text) = 0 THEN None ELSE parse_current_status_from(Lower(text), 1)

\* выходной|закрыт|не\s*работа
ClosedRe == Grp(0, <<Lit(W_vyhodnoj), Lit(W_zakryt),
                     Lit(W_ne) \o Cls(Whitespace, 0, Unbounded) \o Lit(W_rabota)>>, 1, 1)
\* круглосуточно|24/7|24\s*часа
AroundTheClockRe == Grp(0, <<Lit(W_kruglosutochno), Lit(<<"2", "4", "/", "7">>),
                             Lit(<<"2", "4">>) \o Cls(Whitespace, 0, Unbounded) \o Lit(W_chasa)>>,
                        1, 1)

\* the time_patterns of _extract_working_hours with their numbers of groups
time_patterns == <<
  \* (\d{1,2}):(\d{2})\s*[-–—]\s*(\d{1,2}):(\d{2})
  [re |-> Grp(1, <<Cls(Digit, 1, 2)>>, 1, 1) \o Lit(<<":">>) \o Grp(2, <<Cls(Digit, 2, 2)>>, 1, 1)
          \o Cls(Whitespace, 0, Unbounded) \o Cls(Dashes, 1, 1) \o Cls(Whitespace, 0, Unbounded)
          \o Grp(3, <<Cls(Digit, 1, 2)>>, 1, 1) \o Lit(<<":">>)
          \o Grp(4, <<Cls(Digit, 2, 2)>>, 1, 1), ng |-> 4],
  \* (\d{1,2})\s*[-–—]\s*(\d{1,2})
  [re |-> Grp(1, <<Cls(Digit, 1, 2)>>, 1, 1) \o Cls(Whitespace, 0, Unbounded)
          \o Cls(Dashes, 1, 1) \o Cls(Whitespace, 0, Unbounded)
          \o Grp(2, <<Cls(Digit, 1, 2)>>, 1, 1), ng |-> 2],
  \* с\s*(\d{1,2}):?(\d{0,2})\s*до\s*(\d{1,2}):?(\d{0,2})
  [re |-> Lit(<<"ru_s">>) \o Cls(Whitespace, 0, Unbounded) \o HourMinute(1)
          \o Cls(Whitespace, 0, Unbounded) \o Lit(W_do) \o Cls(Whitespace, 0, Unbounded)
          \o HourMinute(3), ng |-> 4] >>

\* the hour or minute text of a group; "00" for an empty minute group
OrZeros(s) == IF Len(s) > 0 THEN s ELSE <<"0", "0">>

RECURSIVE extract_hours_from(_, _)
extract_hours_from(time_text, k) ==
  IF k > Len(time_patterns) THEN None
  ELSE Let(time_patterns[k],
           LAMBDA p :
       Let(Search(p.re, p.ng, time_text, FALSE),
           LAMBDA m :
       Let(ToInt(Group(m, time_text, 1)),
           LAMBDA start_h :
       Let(IF p.ng = 4 THEN ToInt(OrZeros(Group(m, time_text, 2))) ELSE 0,
           LAMBDA start_m :
       Let(ToInt(Group(m, time_text, IF p.ng = 4 THEN 3 ELSE 2)),
           LAMBDA end_h :
       Let(IF p.ng = 4 THEN ToInt(OrZeros(Group(m, time_text, 4))) ELSE 0,
           LAMBDA end_m :
       IF Found(m) /\ 0 <= start_h /\ start_h <= 23 /\ 0 <= start_m /\ start_m <= 59
          /\ 0 <= end_h /\ end_h <= 23 /\ 0 <= end_m /\ end_m <= 59
       THEN Some(Fmt02(start_h) \o <<":">> \o Fmt02(start_m) \o <<"-">>
                 \o Fmt02(end_h) \o <<":">> \o Fmt02(end_m))
       ELSE extract_hours_from(time_text, k + 1)))))))

\* ScheduleParser._extract_working_hours
extract_working_hours(text) ==
  IF Len(text) = 0 THEN None
  ELSE Let(Strip(text),
           LAMBDA time_text :
       IF Found(Search(ClosedRe, 0, time_text, TRUE)) THEN Some(S_Vyhodnoj)
       ELSE IF Found(Search(AroundTheClockRe, 0, time_text, TRUE)) THEN Some(S_Kruglosutochno)
       ELSE extract_hours_from(time_text, 1))

\* the first day of WEEKDAYS, in dict order, whose name occurs in the line
RECURSIVE found_day_from(_, _)
found_day_from(line_lower, k) ==
  IF k > Len(WEEKDAYS) THEN None
  ELSE IF Contains(line_lower, WEEKDAYS[k][1]) THEN Some(WEEKDAYS[k][2])
  ELSE found_day_from(line_lower, k + 1)

\* ScheduleParser._parse_daily_schedule
parse_daily_schedule(line) ==
  IF Len(line) = 0 THEN EmptySchedule
  ELSE Let(found_day_from(Strip(Lower(line)), 1),
           LAMBDA found_day :
       Let(extract_working_hours(line),
           LAMBDA working_hours :
       IF IsNone(found_day) \/ IsNone(working_hours) THEN EmptySchedule
       ELSE (Val(found_day) :> Val(working_hours))))

\* \s*:?\s*([^,\n]+) as group g
ColonAndRest(g) == Cls(Whitespace, 0, Unbounded) \o Cls({":"}, 0, 1)
                   \o Cls(Whitespace, 0, Unbounded)
                   \o Grp(g, <<NotCls({",", "\n"}, 1, Unbounded)>>, 1, 1)

\* the range_patterns of _parse_day_ranges: pattern, number of groups and
\* the days the branch taken for the pattern sets
range_patterns == <<
  \* (пн|понедельник)\s*[-–—]\s*(пт|пятница)\s*:?\s*([^,\n]+)
  [re |-> Grp(1, <<Lit(W_pn), Lit(W_ponedelnik)>>, 1, 1) \o Cls(Whitespace, 0, Unbounded)
          \o Cls(Dashes, 1, 1) \o Cls(Whitespace, 0, Unbounded)
          \o Grp(2, <<Lit(W_pt), Lit(W_pyatnica)>>, 1, 1) \o ColonAndRest(3),
   ng |-> 3, days |-> <<"monday", "tuesday", "wednesday", "thursday", "friday">>],
  \* (сб|суббота)\s*[-–—]\s*(вс|воскресенье)\s*:?\s*([^,\n]+)
  [re |-> Grp(1, <<Lit(W_sb), Lit(W_subbota)>>, 1, 1) \o Cls(Whitespace, 0, Unbounded)
          \o Cls(Dashes, 1, 1) \o Cls(Whitespace, 0, Unbounded)
          \o Grp(2, <<Lit(W_vs), Lit(W_voskresene)>>, 1, 1) \o ColonAndRest(3),
   ng |-> 3, days |-> <<"saturday", "sunday">>],
  \* будни\s*:?\s*([^,\n]+)
  [re |-> Lit(W_budni) \o ColonAndRest(1),
   ng |-> 1, days |-> <<"monday", "tuesday", "wednesday", "thursday", "friday">>],
  \* выходные\s*:?\s*([^,\n]+)
  [re |-> Lit(W_vyhodnye) \o ColonAndRest(1),
   ng |-> 1, days |-> <<"saturday", "sunday">>],
  \* рабочие\s*дни\s*:?\s*([^,\n]+)
  [re |-> Lit(W_rabochie) \o Cls(Whitespace, 0, Unbounded) \o Lit(W_dni) \o ColonAndRest(1),
   ng |-> 1, days |-> <<"monday", "tuesday", "wednesday", "thursday", "friday">>] >>

\* schedule[day] = working_hours for every day of days
SetDays(schedule, days, working_hours) ==
  Update(schedule, [d \in {days[i] : i \in 1..Len(days)} |-> working_hours])

\* the matches of one range pattern, in order
RECURSIVE range_matches(_, _, _, _, _)
range_matches(schedule, p, matches, i, text_lower) ==
  IF i > Len(matches) THEN schedule
  ELSE Let(extract_working_hours(Group(matches[i], text_lower, p.ng)),
           LAMBDA working_hours :
       range_matches(IF IsNone(working_hours) THEN schedule
                     ELSE SetDays(schedule, p.days, Val(working_hours)),
                     p, matches, i + 1, text_lower))

RECURSIVE parse_day_ranges_from(_, _, _)
parse_day_ranges_from(schedule, text_lower, k) ==
  IF k > Len(range_patterns) THEN schedule
  ELSE Let(range_patterns[k],
           LAMBDA p :
       parse_day_ranges_from(
         range_matches(schedule, p, FindIter(p.re, p.ng, text_lower, FALSE), 1, text_lower),
         text_lower, k + 1))

\* ScheduleParser._parse_day_ranges
parse_day_ranges(text) == parse_day_ranges_from(EmptySchedule, Lower(text), 1)

\* ScheduleParser._normalize_day_name: WEEKDAYS.get(day_name.lower().strip())
normalize_day_name(day_name) ==
  IF Len(day_name) = 0 THEN None
  ELSE Let(Strip(Lower(day_name)),
           LAMBDA day_lower :
       IF \E k \in 1..Len(WEEKDAYS) : WEEKDAYS[k][1] = day_lower
       THEN Some(WEEKDAYS[CHOOSE k \in 1..Len(WEEKDAYS) : WEEKDAYS[k][1] = day_lower][2])
       ELSE None)

\* day_order.index(day)
DayIndex(day) == CHOOSE i \in 1..7 : day_order[i] = day

\* ScheduleParser._get_day_range
get_day_range(start_day, end_day) ==
  Let(DayIndex(start_day),
      LAMBDA start_index :
  Let(DayIndex(end_day),
      LAMBDA end_index :
  IF start_index <= end_index
  THEN SubSeq(day_order, start_index, end_index)
  ELSE SubSeq(day_order, start_index, 7) \o SubSeq(day_order, 1, end_index)))

\* ScheduleParser._parse_day_specification
parse_day_specification(day_spec) ==
  IF \E i \in 1..Len(day_spec) : day_spec[i] \in Dashes
  THEN Let(Split(Cls(Dashes, 1, 1), day_spec, FALSE),
           LAMBDA parts :
       Let(normalize_day_name(Strip(parts[1])),
           LAMBDA start_day :
       Let(normalize_day_name(Strip(parts[2])),
           LAMBDA end_day :
       IF Len(parts) = 2 /\ ~IsNone(start_day) /\ ~IsNone(end_day)
       THEN get_day_range(Val(start_day), Val(end_day))
       ELSE <<>>)))
  ELSE Let(normalize_day_name(day_spec),
           LAMBDA day :
       IF IsNone(day) THEN <<>> ELSE <<Val(day)>>)

\* ([а-яa-z\-]+)\s+([^,]+)
compact_pattern == Grp(1, <<Cls(CyrLowerRange \cup LatinLower \cup {"-"}, 1, Unbounded)>>, 1, 1)
                   \o Cls(Whitespace, 1, Unbounded)
                   \o Grp(2, <<NotCls({","}, 1, Unbounded)>>, 1, 1)

RECURSIVE compact_matches(_, _, _, _)
compact_matches(schedule, matches, i, text_lower) ==
  IF i > Len(matches) THEN schedule
  ELSE Let(Strip(Group(matches[i], text_lower, 1)),
           LAMBDA day_part :
       Let(Strip(Group(matches[i], text_lower, 2)),
           LAMBDA time_part :
       Let(parse_day_specification(day_part),
           LAMBDA days :
       Let(extract_working_hours(time_part),
           LAMBDA working_hours :
       compact_matches(IF Len(days) > 0 /\ ~IsNone(working_hours)
                       THEN SetDays(schedule, days, Val(working_hours))
                       ELSE schedule,
                       matches, i + 1, text_lower)))))

\* ScheduleParser._parse_compact_schedule
parse_compact_schedule(text) ==
  compact_matches(EmptySchedule, FindIter(compact_pattern, 2, Lower(text), FALSE), 1, Lower(text))

\* format 1 of _parse_weekly_schedule: every line on its own
RECURSIVE daily_lines(_, _, _)
daily_lines(schedule, lines, i) ==
  IF i > Len(lines) THEN schedule
  ELSE daily_lines(Update(schedule, parse_daily_schedule(lines[i])), lines, i + 1)

\* ScheduleParser._parse_weekly_schedule
parse_weekly_schedule(text) ==
  IF Len(text) = 0 THEN EmptySchedule
  ELSE Let(SplitChar(text, "\n"),
           LAMBDA lines :
       Let(daily_lines(EmptySchedule, lines, 1),
           LAMBDA by_line :
       Let(Update(by_line, parse_day_ranges(text)),
           LAMBDA by_range :
       Update(by_range, parse_compact_schedule(text)))))

\* ScheduleParser._extract_notes
extract_notes(text) ==
  IF Len(text) = 0 THEN None
  ELSE Let(Split(Cls({".", "!", "?"}, 1, 1), text, FALSE),
           LAMBDA sentences :
       Let([i \in 1..Len(sentences) |-> Strip(sentences[i])],
           LAMBDA stripped :
       Let(SelectSeq(stripped,
                     LAMBDA st : /\ \E ind \in note_indicators : Contains(Lower(st), ind)
                                 /\ Len(st) > 10),
           LAMBDA notes :
       IF Len(notes) > 0
       THEN Some(Join(<<".", " ">>, SubSeq(notes, 1, IF Len(notes) < 3 THEN Len(notes) ELSE 3)))
       ELSE None)))

\* ScheduleParser.parse, the body of its try block
ScheduleParser_try(raw_data) ==
  Let(clean_text_any(raw_data),
      LAMBDA clean_data :
  Let(parse_current_status(clean_data),
      LAMBDA status_result :
  Let(parse_weekly_schedule(clean_data),
      LAMBDA weekly_schedule :
  Let(extract_notes(clean_data),
      LAMBDA notes :
  Let((IF ~IsNone(status_result) THEN Tenths(3) ELSE 0)
      + (IF DOMAIN weekly_schedule # {} THEN Tenths(5) ELSE 0)
      + (IF ~IsNone(notes) THEN Tenths(2) ELSE 0),
      LAMBDA confidence :
  Returned(create_result([current_status |-> status_result,
                          schedule |-> weekly_schedule,
                          notes |-> notes],
                         confidence > Tenths(3),
                         IF confidence < One THEN confidence ELSE One)))))))

\* ScheduleParser.parse
ScheduleParser_parse(raw_data) ==
  IF Falsy(raw_data)
  THEN Returned(create_result(EmptyDict, FALSE, 0))
  ELSE Except(ScheduleParser_try(raw_data), EmptyDict, "schedule parsing error")

----------------------------------------------------------------------------
(* parser/review_parser.py and the month tables of TextNormalizer.  The    *)
(* parser reads the clock (datetime.now()): the date it reads is the       *)
(* parameter now, a record [year, month, day].                             *)

W_iz == <<"ru_i", "ru_z">>
W_zvezd == <<"ru_z", "ru_v", "ru_e", "ru_z", "ru_d">>
W_ball == <<"ru_b", "ru_a", "ru_l", "ru_l">>
W_ocenka == <<"ru_o", "ru_c", "ru_e", "ru_n", "ru_k", "ru_a", ":">>
W_segodnya == <<"ru_s", "ru_e", "ru_g", "ru_o", "ru_d", "ru_n", "ru_ya">>
W_vchera == <<"ru_v", "ru_ch", "ru_e", "ru_r", "ru_a">>
W_pozavchera == <<"ru_p", "ru_o", "ru_z", "ru_a", "ru_v", "ru_ch", "ru_e", "ru_r", "ru_a">>
W_today == <<"t", "o", "d", "a", "y">>
W_yesterday == <<"y", "e", "s", "t", "e", "r", "d", "a", "y">>
W_dn == <<"ru_d", "ru_n">>
W_dnya == <<"ru_d", "ru_n", "ru_ya">>
W_dnej == <<"ru_d", "ru_n", "ru_e", "ru_j">>
W_day == <<"d", "a", "y">>
W_days == <<"d", "a", "y", "s">>
W_ned == <<"ru_n", "ru_e", "ru_d">>
W_nedel == <<"ru_n", "ru_e", "ru_d", "ru_e", "ru_l">>
W_week == <<"w", "e", "e", "k">>
W_weeks == <<"w", "e", "e", "k", "s">>
W_mes == <<"ru_m", "ru_e", "ru_s">>
W_mesyac == <<"ru_m", "ru_e", "ru_s", "ru_ya", "ru_c">>
W_month == <<"m", "o", "n", "t", "h">>
W_months == <<"m", "o", "n", "t", "h", "s">>
W_nazad == <<"ru_n", "ru_a", "ru_z", "ru_a", "ru_d">>
W_polezn == <<"ru_p", "ru_o", "ru_l", "ru_e", "ru_z", "ru_n">>
W_helpful == <<"h", "e", "l", "p", "f", "u", "l">>
W_like == <<"l", "i", "k", "e">>
\* TextNormalizer.MONTH_NAMES_RU
MONTH_NAMES_RU == <<
  <<<<"ru_ya", "ru_n", "ru_v", "ru_a", "ru_r", "ru_ya">>, <<"0", "1">>>>,
  <<<<"ru_f", "ru_e", "ru_v", "ru_r", "ru_a", "ru_l", "ru_ya">>, <<"0", "2">>>>,
  <<<<"ru_m", "ru_a", "ru_r", "ru_t", "ru_a">>, <<"0", "3">>>>,
  <<<<"ru_a", "ru_p", "ru_r", "ru_e", "ru_l", "ru_ya">>, <<"0", "4">>>>,
  <<<<"ru_m", "ru_a", "ru_ya">>, <<"0", "5">>>>,
  <<<<"ru_i", "ru_yu", "ru_n", "ru_ya">>, <<"0", "6">>>>,
  <<<<"ru_i", "ru_yu", "ru_l", "ru_ya">>, <<"0", "7">>>>,
  <<<<"ru_a", "ru_v", "ru_g", "ru_u", "ru_s", "ru_t", "ru_a">>, <<"0", "8">>>>,
  <<<<"ru_s", "ru_e", "ru_n", "ru_t", "ru_ya", "ru_b", "ru_r", "ru_ya">>, <<"0", "9">>>>,
  <<<<"ru_o", "ru_k", "ru_t", "ru_ya", "ru_b", "ru_r", "ru_ya">>, <<"1", "0">>>>,
  <<<<"ru_n", "ru_o", "ru_ya", "ru_b", "ru_r", "ru_ya">>, <<"1", "1">>>>,
  <<<<"ru_d", "ru_e", "ru_k", "ru_a", "ru_b", "ru_r", "ru_ya">>, <<"1", "2">>>>,
  <<<<"ru_ya", "ru_n", "ru_v">>, <<"0", "1">>>>,
  <<<<"ru_f", "ru_e", "ru_v">>, <<"0", "2">>>>,
  <<<<"ru_m", "ru_a", "ru_r">>, <<"0", "3">>>>,
  <<<<"ru_a", "ru_p", "ru_r">>, <<"0", "4">>>>,
  <<<<"ru_m", "ru_a", "ru_j">>, <<"0", "5">>>>,
  <<<<"ru_i", "ru_yu", "ru_n">>, <<"0", "6">>>>,
  <<<<"ru_i", "ru_yu", "ru_l">>, <<"0", "7">>>>,
  <<<<"ru_a", "ru_v", "ru_g">>, <<"0", "8">>>>,
  <<<<"ru_s", "ru_e", "ru_n">>, <<"0", "9">>>>,
  <<<<"ru_o", "ru_k", "ru_t">>, <<"1", "0">>>>,
  <<<<"ru_n", "ru_o", "ru_ya">>, <<"1", "1">>>>,
  <<<<"ru_d", "ru_e", "ru_k">>, <<"1", "2">>>> >>
\* TextNormalizer.MONTH_NAMES_EN
MONTH_NAMES_EN == <<
  <<<<"j", "a", "n", "u", "a", "r", "y">>, <<"0", "1">>>>,
  <<<<"f", "e", "b", "r", "u", "a", "r", "y">>, <<"0", "2">>>>,
  <<<<"m", "a", "r", "c", "h">>, <<"0", "3">>>>,
  <<<<"a", "p", "r", "i", "l">>, <<"0", "4">>>>,
  <<<<"m", "a", "y">>, <<"0", "5">>>>,
  <<<<"j", "u", "n", "e">>, <<"0", "6">>>>,
  <<<<"j", "u", "l", "y">>, <<"0", "7">>>>,
  <<<<"a", "u", "g", "u", "s", "t">>, <<"0", "8">>>>,
  <<<<"s", "e", "p", "t", "e", "m", "b", "e", "r">>, <<"0", "9">>>>,
  <<<<"o", "c", "t", "o", "b", "e", "r">>, <<"1", "0">>>>,
  <<<<"n", "o", "v", "e", "m", "b", "e", "r">>, <<"1", "1">>>>,
  <<<<"d", "e", "c", "e", "m", "b", "e", "r">>, <<"1", "2">>>>,
  <<<<"j", "a", "n">>, <<"0", "1">>>>,
  <<<<"f", "e", "b">>, <<"0", "2">>>>,
  <<<<"m", "a", "r">>, <<"0", "3">>>>,
  <<<<"a", "p", "r">>, <<"0", "4">>>>,
  <<<<"m", "a", "y">>, <<"0", "5">>>>,
  <<<<"j", "u", "n">>, <<"0", "6">>>>,
  <<<<"j", "u", "l">>, <<"0", "7">>>>,
  <<<<"a", "u", "g">>, <<"0", "8">>>>,
  <<<<"s", "e", "p">>, <<"0", "9">>>>,
  <<<<"o", "c", "t">>, <<"1", "0">>>>,
  <<<<"n", "o", "v">>, <<"1", "1">>>>,
  <<<<"d", "e", "c">>, <<"1", "2">>>> >>
\* ReviewParser.OWNER_RESPONSE_INDICATORS
OWNER_RESPONSE_INDICATORS == <<
  <<"ru_o", "ru_t", "ru_v", "ru_e", "ru_t", " ", "ru_v", "ru_l", "ru_a", "ru_d", "ru_e", "ru_l", "ru_soft", "ru_c", "ru_a">>,
  <<"ru_o", "ru_t", "ru_v", "ru_e", "ru_t", " ", "ru_z", "ru_a", "ru_v", "ru_e", "ru_d", "ru_e", "ru_n", "ru_i", "ru_ya">>,
  <<"ru_o", "ru_t", " ", "ru_a", "ru_d", "ru_m", "ru_i", "ru_n", "ru_i", "ru_s", "ru_t", "ru_r", "ru_a", "ru_c", "ru_i", "ru_i">>,
  <<"o", "w", "n", "e", "r", " ", "r", "e", "s", "p", "o", "n", "s", "e">>,
  <<"b", "u", "s", "i", "n", "e", "s", "s", " ", "r", "e", "s", "p", "o", "n", "s", "e">>,
  <<"m", "a", "n", "a", "g", "e", "m", "e", "n", "t", " ", "r", "e", "s", "p", "o", "n", "s", "e">>,
  <<"ru_a", "ru_d", "ru_m", "ru_i", "ru_n", "ru_i", "ru_s", "ru_t", "ru_r", "ru_a", "ru_t", "ru_o", "ru_r">>,
  <<"ru_m", "ru_e", "ru_n", "ru_e", "ru_d", "ru_zh", "ru_e", "ru_r">>,
  <<"ru_r", "ru_u", "ru_k", "ru_o", "ru_v", "ru_o", "ru_d", "ru_s", "ru_t", "ru_v", "ru_o">> >>
\* the month names of the date patterns
MonthsRu == <<Lit(<<"ru_ya", "ru_n", "ru_v", "ru_a", "ru_r", "ru_ya">>),
             Lit(<<"ru_f", "ru_e", "ru_v", "ru_r", "ru_a", "ru_l", "ru_ya">>),
             Lit(<<"ru_m", "ru_a", "ru_r", "ru_t", "ru_a">>),
             Lit(<<"ru_a", "ru_p", "ru_r", "ru_e", "ru_l", "ru_ya">>),
             Lit(<<"ru_m", "ru_a", "ru_ya">>),
             Lit(<<"ru_i", "ru_yu", "ru_n", "ru_ya">>),
             Lit(<<"ru_i", "ru_yu", "ru_l", "ru_ya">>),
             Lit(<<"ru_a", "ru_v", "ru_g", "ru_u", "ru_s", "ru_t", "ru_a">>),
             Lit(<<"ru_s", "ru_e", "ru_n", "ru_t", "ru_ya", "ru_b", "ru_r", "ru_ya">>),
             Lit(<<"ru_o", "ru_k", "ru_t", "ru_ya", "ru_b", "ru_r", "ru_ya">>),
             Lit(<<"ru_n", "ru_o", "ru_ya", "ru_b", "ru_r", "ru_ya">>),
             Lit(<<"ru_d", "ru_e", "ru_k", "ru_a", "ru_b", "ru_r", "ru_ya">>)>>
MonthsEn == <<Lit(<<"J", "a", "n">>),
             Lit(<<"F", "e", "b">>),
             Lit(<<"M", "a", "r">>),
             Lit(<<"A", "p", "r">>),
             Lit(<<"M", "a", "y">>),
             Lit(<<"J", "u", "n">>),
             Lit(<<"J", "u", "l">>),
             Lit(<<"A", "u", "g">>),
             Lit(<<"S", "e", "p">>),
             Lit(<<"O", "c", "t">>),
             Lit(<<"N", "o", "v">>),
             Lit(<<"D", "e", "c">>)>>

\* the characters normalize_month_name takes for Russian
RussianLetters == CyrLowerRange \cup {"ru_yo"}
\* dict.get(key) on a table of <<key, value>> pairs; a later pair of the same key wins
Lookup(table, key) ==
  Let({k \in 1..Len(table) : table[k][1] = key},
      LAMBDA hits :
  IF hits = {} THEN None
  ELSE Some(table[CHOOSE k \in hits : \A j \in hits : j <= k][2]))
\* TextNormalizer.normalize_month_name(month_text), language "auto"
normalize_month_name(month_text) ==
  IF Len(month_text) = 0 THEN None
  ELSE Let(Strip(Lower(month_text)),
           LAMBDA month_lower :
       IF \E k \in 1..Len(month_lower) : month_lower[k] \in RussianLetters
       THEN Lookup(MONTH_NAMES_RU, month_lower)
       ELSE Lookup(MONTH_NAMES_EN, month_lower))

\* the calendar of datetime: leap years, the days of a month, the ordinal of a date
IsLeap(y) == y % 4 = 0 /\ (y % 100 # 0 \/ y % 400 = 0)
DaysInMonth(y, m) ==
  IF m = 2 THEN (IF IsLeap(y) THEN 29 ELSE 28)
  ELSE IF m \in {4, 6, 9, 11} THEN 30 ELSE 31
RECURSIVE DaysBeforeMonth(_, _)
DaysBeforeMonth(y, m) == IF m = 1 THEN 0 ELSE DaysBeforeMonth(y, m - 1) + DaysInMonth(y, m - 1)
Ordinal(date) ==
  Let(date.year - 1,
      LAMBDA y :
  365 * y + (y \div 4) - (y \div 100) + (y \div 400)
  + DaysBeforeMonth(date.year, date.month) + date.day)
\* now - timedelta(days=days), for at most two years back
DaysBefore(now, days) ==
  CHOOSE date \in [year : (now.year - 2)..now.year, month : 1..12, day : 1..31] :
    /\ date.day <= DaysInMonth(date.year, date.month)
    /\ Ordinal(date) = Ordinal(now) - days
\* date.strftime("%d.%m.%Y")
strftime(date) ==
  Fmt02(date.day) \o <<".">> \o Fmt02(date.month) \o <<".">> \o ToStr(date.year)

\* ReviewParser.RATING_PATTERNS
RATING_PATTERNS == <<
  \* (\d)\s*(?:из\s*5|/5|\*|★)
  Grp(1, <<Cls(Digit, 1, 1)>>, 1, 1) \o Cls(Whitespace, 0, Unbounded)
    \o Grp(0, <<Lit(W_iz) \o Cls(Whitespace, 0, Unbounded) \o Lit(<<"5">>),
                Lit(<<"/", "5">>), Lit(<<"*">>), Lit(<<"STAR">>)>>, 1, 1),
  \* (\d+)\s*звезд[ыа]?
  Grp(1, <<Cls(Digit, 1, Unbounded)>>, 1, 1) \o Cls(Whitespace, 0, Unbounded)
    \o Lit(W_zvezd) \o Cls({"ru_y", "ru_a"}, 0, 1),
  \* (\d+)\s*балл[ао]в?
  Grp(1, <<Cls(Digit, 1, Unbounded)>>, 1, 1) \o Cls(Whitespace, 0, Unbounded)
    \o Lit(W_ball) \o Cls({"ru_a", "ru_o"}, 1, 1) \o Cls({"ru_v"}, 0, 1),
  \* оценка:\s*(\d+)
  Lit(W_ocenka) \o Cls(Whitespace, 0, Unbounded) \o Grp(1, <<Cls(Digit, 1, Unbounded)>>, 1, 1) >>
\* (★+)
StarsRe == Grp(1, <<Cls({"STAR"}, 1, Unbounded)>>, 1, 1)

\* (\d{lo,hi}) as group cap
Digits(cap, lo, hi) == Grp(cap, <<Cls(Digit, lo, hi)>>, 1, 1)
\* (\d+)\s*(?:w1|w2|...)\s*назад
AgoRe(units) ==
  Digits(1, 1, Unbounded) \o Cls(Whitespace, 0, Unbounded) \o Grp(0, units, 1, 1)
    \o Cls(Whitespace, 0, Unbounded) \o Lit(W_nazad)
\* ReviewParser.DATE_PATTERNS: pattern, number of groups, format type
DATE_PATTERNS == <<
  [re |-> Digits(1, 1, 2) \o Cls(Whitespace, 1, Unbounded) \o Grp(2, MonthsRu, 1, 1)
          \o Cls(Whitespace, 1, Unbounded) \o Digits(3, 4, 4), ng |-> 3, type |-> "ru_full"],
  [re |-> Digits(1, 1, 2) \o Cls(Whitespace, 1, Unbounded) \o Grp(2, MonthsEn, 1, 1)
          \o Cls(Whitespace, 1, Unbounded) \o Digits(3, 4, 4), ng |-> 3, type |-> "en_full"],
  [re |-> Digits(1, 1, 2) \o Cls(Whitespace, 1, Unbounded) \o Grp(2, MonthsRu, 1, 1),
   ng |-> 2, type |-> "ru_short"],
  [re |-> Digits(1, 1, 2) \o Cls(Whitespace, 1, Unbounded) \o Grp(2, MonthsEn, 1, 1),
   ng |-> 2, type |-> "en_short"],
  [re |-> Digits(1, 1, 2) \o Lit(<<".">>) \o Digits(2, 1, 2) \o Lit(<<".">>) \o Digits(3, 2, 4),
   ng |-> 3, type |-> "numeric_dot"],
  [re |-> Digits(1, 1, 2) \o Lit(<<"/">>) \o Digits(2, 1, 2) \o Lit(<<"/">>) \o Digits(3, 2, 4),
   ng |-> 3, type |-> "numeric_slash"],
  [re |-> Digits(1, 4, 4) \o Lit(<<"-">>) \o Digits(2, 1, 2) \o Lit(<<"-">>) \o Digits(3, 1, 2),
   ng |-> 3, type |-> "iso"],
  [re |-> Grp(1, <<Lit(W_segodnya), Lit(W_vchera), Lit(W_pozavchera)>>, 1, 1),
   ng |-> 1, type |-> "relative_ru"],
  [re |-> Grp(1, <<Lit(W_today), Lit(W_yesterday)>>, 1, 1), ng |-> 1, type |-> "relative_en"],
  [re |-> AgoRe(<<Lit(W_dn), Lit(W_dnya), Lit(W_dnej), Lit(W_day), Lit(W_days)>>),
   ng |-> 1, type |-> "days_ago"],
  [re |-> AgoRe(<<Lit(W_ned), Lit(W_nedel) \o Cls({"ru_i", "ru_soft"}, 1, 1),
                  Lit(W_week), Lit(W_weeks)>>),
   ng |-> 1, type |-> "weeks_ago"],
  [re |-> AgoRe(<<Lit(W_mes), Lit(W_mesyac) \o Cls({"ru_a", "ru_e"}, 1, 1) \o Cls({"ru_v"}, 0, 1),
                  Lit(W_month), Lit(W_months)>>),
   ng |-> 1, type |-> "months_ago"] >>

\* ReviewParser.AUTHOR_PATTERNS
AUTHOR_PATTERNS == <<
  \* ^([А-Я][а-я]+\s+[А-Я]\.?)$
  Bol \o Grp(1, <<Cls(CyrUpperRange, 1, 1) \o Cls(CyrLowerRange, 1, Unbounded)
                  \o Cls(Whitespace, 1, Unbounded) \o Cls(CyrUpperRange, 1, 1)
                  \o Cls({"."}, 0, 1)>>, 1, 1) \o Eol,
  \* ^([А-Я][а-я]+)$
  Bol \o Grp(1, <<Cls(CyrUpperRange, 1, 1) \o Cls(CyrLowerRange, 1, Unbounded)>>, 1, 1) \o Eol,
  \* ^([A-Z][a-z]+\s+[A-Z]\.?)$
  Bol \o Grp(1, <<Cls(LatinUpper, 1, 1) \o Cls(LatinLower, 1, Unbounded)
                  \o Cls(Whitespace, 1, Unbounded) \o Cls(LatinUpper, 1, 1)
                  \o Cls({"."}, 0, 1)>>, 1, 1) \o Eol,
  \* ^([A-Z][a-z]+)$
  Bol \o Grp(1, <<Cls(LatinUpper, 1, 1) \o Cls(LatinLower, 1, Unbounded)>>, 1, 1) \o Eol >>
\* re.match(re, s)
Match(re, ng, s, ic) == Then(s, MatchAt(re, s, 1, [j \in 1..ng |-> Unset], ic))

\* the first k in 1..n with P(k), or 0
FirstIndex(n, P(_)) ==
  Let({k \in 1..n : P(k)},
      LAMBDA hits :
  IF hits = {} THEN 0 ELSE CHOOSE k \in hits : \A j \in hits : k <= j)
\* seq[:n]
Take(seq, n) == SubSeq(seq, 1, IF Len(seq) < n THEN Len(seq) ELSE n)
\* str.split(): the words between runs of whitespace
SplitWords(s) == SelectSeq(Split(WhitespaceRun, s, FALSE), LAMBDA w : Len(w) > 0)

\* two-digit years of the numeric dates: 20YY up to 30, 19YY above
FullYear(year) ==
  IF Len(year) = 2
  THEN (IF ToInt(year) <= 30 THEN <<"2", "0">> ELSE <<"1", "9">>) \o year
  ELSE year
\* ReviewParser.parse_date, the branch of one format type: the date, or None when the
\* branch returns nothing and the loop goes on
DateOf(type, match, date_text, now) ==
  LET g(j) == Group(match, date_text, j)
  IN
  CASE type \in {"ru_full", "en_full"} ->
         IF ~IsNone(normalize_month_name(g(2)))
         THEN Some(g(1) \o <<" ">> \o g(2) \o <<" ">> \o g(3))
         ELSE None
    [] type \in {"ru_short", "en_short"} ->
         IF ~IsNone(normalize_month_name(g(2)))
         THEN Some(g(1) \o <<" ">> \o g(2) \o <<" ">> \o ToStr(now.year))
         ELSE None
    [] type = "numeric_dot" -> Some(g(1) \o <<".">> \o g(2) \o <<".">> \o FullYear(g(3)))
    [] type = "numeric_slash" -> Some(g(2) \o <<".">> \o g(1) \o <<".">> \o FullYear(g(3)))
    [] type = "iso" -> Some(g(3) \o <<".">> \o g(2) \o <<".">> \o g(1))
    [] type = "relative_ru" ->
         Let(Lower(g(1)),
             LAMBDA relative :
         IF relative = W_segodnya THEN Some(strftime(now))
         ELSE IF relative = W_vchera THEN Some(strftime(DaysBefore(now, 1)))
         ELSE IF relative = W_pozavchera THEN Some(strftime(DaysBefore(now, 2)))
         ELSE None)
    [] type = "relative_en" ->
         Let(Lower(g(1)),
             LAMBDA relative :
         IF relative = W_today THEN Some(strftime(now))
         ELSE IF relative = W_yesterday THEN Some(strftime(DaysBefore(now, 1)))
         ELSE None)
    [] type = "days_ago" ->
         Let(ToInt(g(1)),
             LAMBDA days :
         IF days <= 365 THEN Some(strftime(DaysBefore(now, days))) ELSE None)
    [] type = "weeks_ago" ->
         Let(ToInt(g(1)),
             LAMBDA weeks :
         IF weeks <= 52 THEN Some(strftime(DaysBefore(now, 7 * weeks))) ELSE None)
    [] type = "months_ago" ->
         Let(ToInt(g(1)),
             LAMBDA months :
         IF months <= 12 THEN Some(strftime(DaysBefore(now, months * 30))) ELSE None)
\* ReviewParser.parse_date: the first pattern that matches and whose branch returns
parse_date(date_text, now) ==
  IF Len(date_text) = 0 THEN None
  ELSE LET dated(k) == Let(Search(DATE_PATTERNS[k].re, DATE_PATTERNS[k].ng, date_text, TRUE),
    LAMBDA match :
IF Found(match)
THEN DateOf(DATE_PATTERNS[k].type, match, date_text, now)
ELSE None)
       IN
       Let(FirstIndex(Len(DATE_PATTERNS), LAMBDA j : ~IsNone(dated(j))),
           LAMBDA k :
       IF k = 0 THEN None ELSE dated(k))

\* [^\w\s.-]
NameNoise == NotCls(WordChar \cup Whitespace \cup {".", "-"}, 1, 1)
\* ReviewParser._extract_author: the name, or None
extract_author(text) ==
  Let(Take(SplitChar(text, "\n"), 3),
      LAMBDA lines :
  Let(Len(AUTHOR_PATTERNS),
      LAMBDA np :
  \* the pairs (line, pattern) in the order of the two loops
  LET name(q) == Let(Strip(lines[((q - 1) \div np) + 1]),
    LAMBDA line :
Let(Match(AUTHOR_PATTERNS[((q - 1) % np) + 1], 1, line, FALSE),
    LAMBDA match :
IF Found(match) THEN Some(Strip(Group(match, line, 1))) ELSE None))
  IN
  Let(FirstIndex(Len(lines) * np,
                 LAMBDA j : ~IsNone(name(j)) /\ Len(Val(name(j))) \in 2..50),
      LAMBDA q :
  Let(Take(SplitWords(text), 5),
      LAMBDA words :
  LET cleaned_word(k) == Sub(NameNoise, <<>>, words[k], FALSE)
  IN
  Let(FirstIndex(Len(words),
                 LAMBDA j : /\ Len(cleaned_word(j)) >= 2
                            /\ cleaned_word(j)[1] \in UpperChars
                            /\ ~IsDigitStr(cleaned_word(j))),
      LAMBDA w :
  IF q # 0 THEN name(q)
  ELSE IF w # 0 THEN Some(cleaned_word(w))
  ELSE None)))))

\* ReviewParser._extract_rating: the rating 1..5, or None
extract_rating(text) ==
  LET rating(k) == Let(Search(RATING_PATTERNS[k], 1, text, TRUE),
    LAMBDA match :
IF Found(match) THEN ToInt(Group(match, text, 1)) ELSE 0)
  IN
  Let(FirstIndex(Len(RATING_PATTERNS), LAMBDA j : rating(j) \in 1..5),
      LAMBDA k :
  Let(Search(StarsRe, 1, text, FALSE),
      LAMBDA stars_match :
  Let(Len(Group(stars_match, text, 1)),
      LAMBDA star_count :
  IF k # 0 THEN Some(rating(k))
  ELSE IF Found(stars_match) /\ star_count \in 1..5 THEN Some(star_count)
  ELSE None)))

\* the lines _extract_review_text keeps: no author, rating or date line, and over 5 long
IsReviewLine(line_stripped) ==
  /\ ~\E k \in 1..Len(AUTHOR_PATTERNS) : Found(Match(AUTHOR_PATTERNS[k], 1, line_stripped, FALSE))
  /\ ~\E k \in 1..Len(RATING_PATTERNS) : Found(Search(RATING_PATTERNS[k], 1, line_stripped, TRUE))
  /\ ~\E k \in 1..Len(DATE_PATTERNS) :
        Found(Search(DATE_PATTERNS[k].re, DATE_PATTERNS[k].ng, line_stripped, TRUE))
  /\ Len(line_stripped) > 5
\* ReviewParser._extract_review_text: the review text and the owner's response, or None
extract_review_text(text) ==
  Let(SplitChar(text, "\n"),
      LAMBDA lines :
  Let(SelectSeq([k \in 1..Len(lines) |-> Strip(lines[k])], IsReviewLine),
      LAMBDA filtered_lines :
  Let(Join(<<" ">>, filtered_lines),
      LAMBDA full_text :
  LET split_at(k) == Search(Lit(OWNER_RESPONSE_INDICATORS[k]), 0, full_text, TRUE)
  IN
  \* re.split(indicator, full_text, 1, re.IGNORECASE) gives two parts when it matches
  Let(FirstIndex(Len(OWNER_RESPONSE_INDICATORS),
                 LAMBDA j : /\ Contains(Lower(full_text), OWNER_RESPONSE_INDICATORS[j])
                            /\ Found(split_at(j))),
      LAMBDA k :
  Let(clean_text(IF k = 0 THEN full_text
                 ELSE Strip(Slice(full_text, 1, split_at(k).s))),
      LAMBDA review_text :
  Let(IF k = 0 THEN <<>>
      ELSE clean_text(Strip(Slice(full_text, split_at(k).e, Len(full_text) + 1))),
      LAMBDA owner_response :
  IF Len(filtered_lines) = 0 THEN None
  ELSE Some([review_text |-> IF Len(review_text) > 10 THEN Some(review_text) ELSE None,
             owner_response |-> IF Len(owner_response) > 10 THEN Some(owner_response)
                                ELSE None])))))))

\* the patterns of _extract_helpful_count
helpful_patterns == <<
  \* (\d+)\s*(?:полезн|helpful|like)
  Digits(1, 1, Unbounded) \o Cls(Whitespace, 0, Unbounded)
    \o Grp(0, <<Lit(W_polezn), Lit(W_helpful), Lit(W_like)>>, 1, 1),
  \* (?:полезн|helpful|like).*?(\d+)
  Grp(0, <<Lit(W_polezn), Lit(W_helpful), Lit(W_like)>>, 1, 1) \o LazyDot(0, Unbounded)
    \o Digits(1, 1, Unbounded),
  \* thumbs-up sign, \s*(\d+)
  Lit(<<"THUMBSUP">>) \o Cls(Whitespace, 0, Unbounded) \o Digits(1, 1, Unbounded),
  \* (\d+)\s*, thumbs-up sign
  Digits(1, 1, Unbounded) \o Cls(Whitespace, 0, Unbounded) \o Lit(<<"THUMBSUP">>) >>
\* the largest count of "helpful" marks taken as reasonable
MaxHelpful == 10000
\* ReviewParser._extract_helpful_count: the count, or None
extract_helpful_count(text) ==
  LET count(k) == Let(Search(helpful_patterns[k], 1, text, TRUE),
    LAMBDA match :
IF Found(match) THEN ToInt(Group(match, text, 1)) ELSE -1)
  IN
  Let(FirstIndex(Len(helpful_patterns), LAMBDA j : count(j) \in 0..MaxHelpful),
      LAMBDA k :
  IF k = 0 THEN None ELSE Some(count(k)))

\* _parse_single_review without min(confidence, 1.0)
parse_single_review_uncapped(review_text, now) ==
  Let(extract_author(review_text),
      LAMBDA author_info :
  Let(extract_rating(review_text),
      LAMBDA rating_info :
  Let(parse_date(review_text, now),
      LAMBDA date_info :
  Let(extract_review_text(review_text),
      LAMBDA text_info :
  Let(extract_helpful_count(review_text),
      LAMBDA helpful_info :
  \* a count of 0 is falsy and is not stored
  Let(~IsNone(helpful_info) /\ Val(helpful_info) # 0,
      LAMBDA helpful :
  Let(Tenths(3) + (IF ~IsNone(author_info) THEN Tenths(2) ELSE 0)
      + (IF ~IsNone(rating_info) THEN Tenths(2) ELSE 0)
      + (IF ~IsNone(date_info) THEN Tenths(1) ELSE 0)
      + (IF ~IsNone(text_info) THEN Tenths(2) ELSE 0)
      + (IF helpful THEN Tenths(1) ELSE 0),
      LAMBDA confidence :
  IF Len(review_text) = 0 \/ Len(Strip(review_text)) < 10 THEN None
  ELSE IF IsNone(author_info) THEN None
  ELSE Some([data |-> [author |-> Val(author_info),
                       rating |-> rating_info,
                       date |-> date_info,
                       text |-> IF IsNone(text_info) THEN None ELSE Val(text_info).review_text,
                       response |-> IF IsNone(text_info) THEN None
                                    ELSE Val(text_info).owner_response,
                       helpful_count |-> IF helpful THEN helpful_info ELSE None],
             confidence |-> confidence]))))))))

\* _parse_single_review without the test of review_data["author"]
parse_single_review_unanchored(review_text, now) ==
  Let(extract_author(review_text),
      LAMBDA author_info :
  Let(extract_rating(review_text),
      LAMBDA rating_info :
  Let(parse_date(review_text, now),
      LAMBDA date_info :
  Let(extract_review_text(review_text),
      LAMBDA text_info :
  Let(extract_helpful_count(review_text),
      LAMBDA helpful_info :
  \* a count of 0 is falsy and is not stored
  Let(~IsNone(helpful_info) /\ Val(helpful_info) # 0,
      LAMBDA helpful :
  Let(Tenths(3) + (IF ~IsNone(author_info) THEN Tenths(2) ELSE 0)
      + (IF ~IsNone(rating_info) THEN Tenths(2) ELSE 0)
      + (IF ~IsNone(date_info) THEN Tenths(1) ELSE 0)
      + (IF ~IsNone(text_info) THEN Tenths(2) ELSE 0)
      + (IF helpful THEN Tenths(1) ELSE 0),
      LAMBDA confidence :
  IF Len(review_text) = 0 \/ Len(Strip(review_text)) < 10 THEN None
  ELSE Some([data |-> [author |-> IF IsNone(author_info) THEN <<>> ELSE Val(author_info),
                       rating |-> rating_info,
                       date |-> date_info,
                       text |-> IF IsNone(text_info) THEN None ELSE Val(text_info).review_text,
                       response |-> IF IsNone(text_info) THEN None
                                    ELSE Val(text_info).owner_response,
                       helpful_count |-> IF helpful THEN helpful_info ELSE None],
             confidence |-> IF confidence > One THEN One ELSE confidence]))))))))

\* ReviewParser._parse_single_review: the review and its confidence, or None
parse_single_review(review_text, now) ==
  Let(extract_author(review_text),
      LAMBDA author_info :
  Let(extract_rating(review_text),
      LAMBDA rating_info :
  Let(parse_date(review_text, now),
      LAMBDA date_info :
  Let(extract_review_text(review_text),
      LAMBDA text_info :
  Let(extract_helpful_count(review_text),
      LAMBDA helpful_info :
  \* a count of 0 is falsy and is not stored
  Let(~IsNone(helpful_info) /\ Val(helpful_info) # 0,
      LAMBDA helpful :
  Let(Tenths(3) + (IF ~IsNone(author_info) THEN Tenths(2) ELSE 0)
      + (IF ~IsNone(rating_info) THEN Tenths(2) ELSE 0)
      + (IF ~IsNone(date_info) THEN Tenths(1) ELSE 0)
      + (IF ~IsNone(text_info) THEN Tenths(2) ELSE 0)
      + (IF helpful THEN Tenths(1) ELSE 0),
      LAMBDA confidence :
  IF Len(review_text) = 0 \/ Len(Strip(review_text)) < 10 THEN None
  ELSE IF IsNone(author_info) THEN None
  ELSE Some([data |-> [author |-> Val(author_info),
                       rating |-> rating_info,
                       date |-> date_info,
                       text |-> IF IsNone(text_info) THEN None ELSE Val(text_info).review_text,
                       response |-> IF IsNone(text_info) THEN None
                                    ELSE Val(text_info).owner_response,
                       helpful_count |-> IF helpful THEN helpful_info ELSE None],
             confidence |-> IF confidence > One THEN One ELSE confidence]))))))))

\* the separators of _split_reviews
ReviewSeparators == <<
  \* \n\s*[-•*]\s*
  Lit(<<"\n">>) \o Cls(Whitespace, 0, Unbounded) \o Cls({"-", "BULLET", "*"}, 1, 1)
    \o Cls(Whitespace, 0, Unbounded),
  \* \n\s*\d+\.\s*
  Lit(<<"\n">>) \o Cls(Whitespace, 0, Unbounded) \o Cls(Digit, 1, Unbounded) \o Lit(<<".">>)
    \o Cls(Whitespace, 0, Unbounded),
  \* \n{3,}
  Cls({"\n"}, 3, Unbounded),
  \* (?=\n[А-Я][а-я]+\s+[А-Я]\.)
  Look(Lit(<<"\n">>) \o Cls(CyrUpperRange, 1, 1) \o Cls(CyrLowerRange, 1, Unbounded)
       \o Cls(Whitespace, 1, Unbounded) \o Cls(CyrUpperRange, 1, 1) \o Lit(<<".">>)),
  \* (?=\n\d+\s+(?:звезд|★))
  Look(Lit(<<"\n">>) \o Cls(Digit, 1, Unbounded) \o Cls(Whitespace, 1, Unbounded)
       \o Grp(0, <<Lit(W_zvezd), Lit(<<"STAR">>)>>, 1, 1)) >>
\* the shortest block _split_reviews takes for a review is longer than this
MinReviewLen == 20
\* ReviewParser._split_reviews
split_reviews(text) ==
  LET cleaned_blocks(k) == 
         SelectSeq(Let(Split(ReviewSeparators[k], text, FALSE),
                       LAMBDA blocks :
                   [b \in 1..Len(blocks) |-> clean_text(blocks[b])]),
                   LAMBDA cleaned : Len(cleaned) > MinReviewLen)
  IN
  Let(FirstIndex(Len(ReviewSeparators), LAMBDA j : Len(cleaned_blocks(j)) > 1),
      LAMBDA k :
  IF k # 0 THEN cleaned_blocks(k)
  ELSE IF Len(Strip(text)) > 0 THEN <<text>> ELSE <<>>)

\* the sum of the confidences of the reviews that were parsed
RECURSIVE SumConfidence(_, _)
SumConfidence(reviews, k) ==
  IF k > Len(reviews) THEN 0
  ELSE (IF IsNone(reviews[k]) THEN 0 ELSE Val(reviews[k]).confidence)
       + SumConfidence(reviews, k + 1)
\* ReviewParser.parse, the body of its try block; re.split raises on what is no str
ReviewParser_try(raw_data, now) ==
  IF raw_data.t # "str" THEN Raised("TypeError")
  ELSE Let(split_reviews(raw_data.v),
           LAMBDA review_blocks :
       Let([k \in 1..Len(review_blocks) |-> parse_single_review(review_blocks[k], now)],
           LAMBDA reviews :
       Let(SelectSeq(reviews, LAMBDA r : ~IsNone(r)),
           LAMBDA found :
       Let([k \in 1..Len(found) |-> Val(found[k]).data],
           LAMBDA parsed_reviews :
       Let(SumConfidence(reviews, 1),
           LAMBDA total_confidence :
       Let(IF Len(review_blocks) > 0
           THEN total_confidence \div Len(review_blocks)
           ELSE 0,
           LAMBDA avg_confidence :
       Returned(create_result(parsed_reviews, Len(parsed_reviews) > 0, avg_confidence))))))))

\* ReviewParser.parse
ReviewParser_parse(raw_data, now) ==
  IF Falsy(raw_data)
  THEN Returned(create_result(EmptyList, FALSE, 0))
  ELSE Except(ReviewParser_try(raw_data, now), EmptyList, "review parsing error")

----------------------------------------------------------------------------
(* parser/contact_parser.py                                                *)

\* a dict passed by a caller: keys to values that are a str, None or no str
Dict(d) == [t |-> "dict", v |-> d]
\* key in raw_data and raw_data[key]
Has(d, key) == key \in DOMAIN d /\ ~Falsy(d[key])

\* \(?(\d{3})\)?\s*(\d{3})[-\s]*(\d{2})[-\s]*(\d{2}), the tail of the Russian patterns
RussianNumber ==
  Cls({"("}, 0, 1) \o Digits(1, 3, 3) \o Cls({")"}, 0, 1) \o Cls(Whitespace, 0, Unbounded)
    \o Digits(2, 3, 3) \o Cls({"-"} \cup Whitespace, 0, Unbounded)
    \o Digits(3, 2, 2) \o Cls({"-"} \cup Whitespace, 0, Unbounded) \o Digits(4, 2, 2)
\* ContactParser.PHONE_PATTERNS: pattern, number of groups, what the pattern text starts with
PHONE_PATTERNS == <<
  [re |-> Lit(<<"+", "7">>) \o Cls(Whitespace, 0, Unbounded) \o RussianNumber, ng |-> 4, start |-> "+7"],
  [re |-> Lit(<<"8">>) \o Cls(Whitespace, 0, Unbounded) \o RussianNumber, ng |-> 4, start |-> "8"],
  [re |-> Lit(<<"7">>) \o Cls(Whitespace, 0, Unbounded) \o RussianNumber, ng |-> 4, start |-> "7"],
  \* \+(\d{1,3})\s*\(?(\d{1,4})\)?\s*(\d{1,4})[-\s]*(\d{1,4})[-\s]*(\d{0,4})
  [re |-> Lit(<<"+">>) \o Digits(1, 1, 3) \o Cls(Whitespace, 0, Unbounded)
          \o Cls({"("}, 0, 1) \o Digits(2, 1, 4) \o Cls({")"}, 0, 1)
          \o Cls(Whitespace, 0, Unbounded) \o Digits(3, 1, 4)
          \o Cls({"-"} \cup Whitespace, 0, Unbounded) \o Digits(4, 1, 4)
          \o Cls({"-"} \cup Whitespace, 0, Unbounded) \o Digits(5, 0, 4),
   ng |-> 5, start |-> "+"],
  \* (\d{3,4})[-\s]*(\d{2,3})[-\s]*(\d{2,3})[-\s]*(\d{2,3})
  [re |-> Digits(1, 3, 4) \o Cls({"-"} \cup Whitespace, 0, Unbounded) \o Digits(2, 2, 3)
          \o Cls({"-"} \cup Whitespace, 0, Unbounded) \o Digits(3, 2, 3)
          \o Cls({"-"} \cup Whitespace, 0, Unbounded) \o Digits(4, 2, 3),
   ng |-> 4, start |-> "("] >>

\* [-\w.], and (?:[-\w.])+ which is [-\w.]+
HostChars == WordChar \cup {"-", "."}
\* [\w._~!$&'()*+,;=:@]
PathChars == WordChar \cup {".", "_", "~", "!", "$", "&", "'", "(", ")", "*", "+", ",", ";", "=",
                            ":", "@"}
Letters == LatinLower \cup LatinUpper
\* (?:[chars]|%\d+)*
UrlPart(chars) == Star(<<Cls(chars, 1, 1), Lit(<<"%">>) \o Cls(Digit, 1, Unbounded)>>)
\* (?:/(?:[path characters]|%\d+)*)*
UrlPath == Star(<<Lit(<<"/">>) \o UrlPart(PathChars)>>)
\* ContactParser.WEBSITE_PATTERNS
WEBSITE_PATTERNS == <<
  Lit(<<"h", "t", "t", "p">>) \o Cls({"s"}, 0, 1) \o Lit(<<":", "/", "/">>) \o Cls(HostChars, 1, Unbounded)
    \o Lit(<<".">>) \o Cls(Letters, 2, Unbounded) \o UrlPath
    \o Grp(0, <<Lit(<<"?">>) \o UrlPart(PathChars \cup {"/", "?"})>>, 0, 1)
    \o Grp(0, <<Lit(<<"#">>) \o UrlPart(PathChars \cup {"/", "?"})>>, 0, 1),
  Lit(<<"w", "w", "w", ".">>) \o Cls(HostChars, 1, Unbounded) \o Lit(<<".">>) \o Cls(Letters, 2, Unbounded)
    \o UrlPath,
  Cls(HostChars, 1, Unbounded) \o Lit(<<".">>) \o Cls(Letters, 2, Unbounded) \o UrlPath >>

\* [a-zA-Z0-9_]
UserChars == Letters \cup Digit \cup {"_"}
\* (?:https?://)?
OptScheme == Grp(0, <<Lit(<<"h", "t", "t", "p">>) \o Cls({"s"}, 0, 1) \o Lit(<<":", "/", "/">>)>>, 0, 1)
\* \s*[:@]\s*
ColonOrAt == Cls(Whitespace, 0, Unbounded) \o Cls({":", "@"}, 1, 1) \o Cls(Whitespace, 0, Unbounded)
W_vkontakte == <<"ru_v", "ru_k", "ru_o", "ru_n", "ru_t", "ru_a", "ru_k", "ru_t", "ru_e">>
\* ContactParser.SOCIAL_PATTERNS, in dict order
Networks == <<"telegram", "whatsapp", "vk">>
SOCIAL_PATTERNS ==
  [telegram |-> <<
     OptScheme \o Grp(0, <<Lit(<<"t", ".", "m", "e">>), Lit(<<"t", "e", "l", "e", "g", "r", "a", "m", ".", "m", "e">>), Lit(<<"t", "e", "l", "e", "g", "r", "a", "m", ".", "o", "r", "g">>)>>, 1, 1)
       \o Lit(<<"/">>) \o Grp(1, <<Cls(UserChars, 1, Unbounded)>>, 1, 1),
     Lit(<<"@">>) \o Grp(1, <<Cls(UserChars, 1, Unbounded)>>, 1, 1) \o Cls(Whitespace, 0, Unbounded)
       \o Grp(0, <<Lit(<<"t", "e", "l", "e", "g", "r", "a", "m">>), Lit(<<"t", "g">>)>>, 1, 1),
     Lit(<<"t", "e", "l", "e", "g", "r", "a", "m">>) \o ColonOrAt \o Grp(1, <<Cls(UserChars, 1, Unbounded)>>, 1, 1) >>,
   whatsapp |-> <<
     OptScheme \o Grp(0, <<Lit(<<"w", "a", ".", "m", "e">>), Lit(<<"a", "p", "i", ".", "w", "h", "a", "t", "s", "a", "p", "p", ".", "c", "o", "m", "/", "s", "e", "n", "d", "?", "p", "h", "o", "n", "e", "=">>)>>, 1, 1)
       \o Digits(1, 1, Unbounded),
     Lit(<<"w", "h", "a", "t", "s", "a", "p", "p">>) \o ColonOrAt \o Cls({"+"}, 0, 1) \o Digits(1, 1, Unbounded),
     Lit(<<"w", "a">>) \o ColonOrAt \o Cls({"+"}, 0, 1) \o Digits(1, 1, Unbounded) >>,
   vk |-> <<
     OptScheme \o Grp(0, <<Lit(<<"v", "k", ".", "c", "o", "m">>), Lit(<<"m", ".", "v", "k", ".", "c", "o", "m">>)>>, 1, 1)
       \o Lit(<<"/">>) \o Grp(1, <<Cls(UserChars \cup {"."}, 1, Unbounded)>>, 1, 1),
     Lit(<<"v", "k">>) \o ColonOrAt \o Grp(1, <<Cls(UserChars \cup {"."}, 1, Unbounded)>>, 1, 1),
     Lit(W_vkontakte) \o ColonOrAt \o Grp(1, <<Cls(UserChars \cup {"."}, 1, Unbounded)>>, 1, 1) >>]

\* ContactParser.EMAIL_PATTERN: [a-zA-Z0-9._%+-]+@[a-zA-Z0-9.-]+\.[a-zA-Z]{2,}
EMAIL_PATTERN ==
  Cls(Letters \cup Digit \cup {".", "_", "%", "+", "-"}, 1, Unbounded) \o Lit(<<"@">>)
    \o Cls(Letters \cup Digit \cup {".", "-"}, 1, Unbounded) \o Lit(<<".">>)
    \o Cls(Letters, 2, Unbounded)

\* "+7 (code) part1-part2-part3"
RussianFormat(code, part1, part2, part3) ==
  <<"+", "7", " ", "(">> \o code \o <<")", " ">> \o part1 \o <<"-">> \o part2 \o <<"-">> \o part3
\* [^\d\+\(\)\-\s]
NotPhoneChar == NotCls(Digit \cup {"+", "(", ")", "-"} \cup Whitespace, 1, 1)
\* the digit fallback with the eleven-digit branches only
phone_from_eleven_digits(digits) ==
  IF Len(digits) = 11 /\ (StartsWith(digits, <<"8">>) \/ StartsWith(digits, <<"7">>))
  THEN Some(RussianFormat(Slice(digits, 2, 5), Slice(digits, 5, 8), Slice(digits, 8, 10),
                          Slice(digits, 10, 12)))
  ELSE None

\* the end of ContactParser.parse_phone, reached when no pattern matched: the
\* number made from the digits of the text by their count
phone_from_digits(digits) ==
  IF Len(digits) = 11 /\ (StartsWith(digits, <<"8">>) \/ StartsWith(digits, <<"7">>))
  THEN Some(RussianFormat(Slice(digits, 2, 5), Slice(digits, 5, 8), Slice(digits, 8, 10),
                          Slice(digits, 10, 12)))
  ELSE IF Len(digits) = 10
  THEN Some(RussianFormat(Slice(digits, 1, 4), Slice(digits, 4, 7), Slice(digits, 7, 9),
                          Slice(digits, 9, 11)))
  ELSE None

\* ContactParser.parse_phone of a non-empty str: the normalized number, or None
parse_phone(phone_text) ==
  Let(Sub(NotPhoneChar, <<>>, phone_text, FALSE),
      LAMBDA cleaned :
  LET match(k) == Search(PHONE_PATTERNS[k].re, PHONE_PATTERNS[k].ng, cleaned, FALSE)
  IN
  Let(FirstIndex(Len(PHONE_PATTERNS), LAMBDA j : Found(match(j))),
      LAMBDA k :
  LET g(j) == Group(match(k), cleaned, j)
  IN
  Let(Sub(NotCls(Digit, 1, 1), <<>>, phone_text, FALSE),
      LAMBDA digits :
  IF Len(phone_text) = 0 THEN None
  ELSE IF k # 0
  THEN IF \/ PHONE_PATTERNS[k].start = "+7" \/ StartsWith(cleaned, <<"+", "7">>)
          \/ PHONE_PATTERNS[k].start = "8" \/ StartsWith(cleaned, <<"8">>)
          \/ PHONE_PATTERNS[k].start = "7"
       THEN Some(RussianFormat(g(1), g(2), g(3), g(4)))
       ELSE Some(<<"+">> \o Concat([j \in 1..PHONE_PATTERNS[k].ng |-> g(j)],
                                 1, PHONE_PATTERNS[k].ng))
  ELSE phone_from_digits(digits))))

\* urlparse(url).netloc of a url that starts with "http://" or "https://": the text
\* between "//" and the first of "/", "?", "#", tabs and line ends of the url dropped;
\* urlparse raises ValueError when the netloc holds a square bracket that stands for
\* no IP literal
Netloc(url) ==
  Let(SelectSeq(url, LAMBDA c : c \notin {"\t", "\r", "\n"}),
      LAMBDA safe :
  Let((CHOOSE i \in 1..Len(safe) : MatchesAt(safe, <<"/", "/">>, i)
                                   /\ \A j \in 1..(i - 1) : ~MatchesAt(safe, <<"/", "/">>, j)) + 2,
      LAMBDA from :
  Let({i \in from..Len(safe) : safe[i] \in {"/", "?", "#"}},
      LAMBDA stops :
  Let(IF stops = {} THEN Len(safe) + 1 ELSE CHOOSE i \in stops : \A j \in stops : i <= j,
      LAMBDA to :
  Let(Slice(safe, from, to),
      LAMBDA netloc :
  IF \E i \in 1..Len(netloc) : netloc[i] \in {"[", "]"}
  THEN Raised("ValueError")
  ELSE Returned(netloc))))))
\* ContactParser._validate_url of a url that starts with "http://" or "https://"
validate_url(url) ==
  Let(Netloc(url),
      LAMBDA parsed :
  /\ ~parsed.raised
  /\ Len(parsed.v) > 0
  /\ ~(Contains(Lower(parsed.v), <<"y", "a", "n", "d", "e", "x">>) /\ Contains(Lower(url), <<"m", "a", "p", "s">>)))
\* the url of a match: "https://" put before it unless it starts with a scheme
WithScheme(url) ==
  IF StartsWith(url, <<"h", "t", "t", "p", ":", "/", "/">>) \/ StartsWith(url, <<"h", "t", "t", "p", "s", ":", "/", "/">>) THEN url
  ELSE <<"h", "t", "t", "p", "s", ":", "/", "/">> \o url
\* ContactParser.parse_website of a str: the url, or None
parse_website(website_text) ==
  Let(Strip(website_text),
      LAMBDA cleaned :
  LET url(k) == Let(Search(WEBSITE_PATTERNS[k], 0, cleaned, TRUE),
    LAMBDA match :
IF Found(match) THEN Some(WithScheme(Group0(match, cleaned))) ELSE None)
  IN
  Let(FirstIndex(Len(WEBSITE_PATTERNS),
                 LAMBDA j : ~IsNone(url(j)) /\ validate_url(Val(url(j)))),
      LAMBDA k :
  IF Len(website_text) = 0 THEN None
  ELSE Then(cleaned, IF k = 0 THEN None ELSE url(k))))

\* ContactParser._validate_email
validate_email(email) ==
  Let(SplitChar(email, "@"),
      LAMBDA parts :
  /\ Len(email) > 0 /\ Contains(email, <<"@">>)
  /\ Len(parts) = 2
  /\ Len(parts[1]) \in 1..64
  /\ Len(parts[2]) \in 1..255
  /\ Contains(parts[2], <<".">>))
\* ContactParser.parse_email of a str: the address in lower case, or None
parse_email(email_text) ==
  Let(Search(EMAIL_PATTERN, 0, email_text, FALSE),
      LAMBDA match :
  Let(Lower(Group0(match, email_text)),
      LAMBDA email :
  IF Len(email_text) > 0 /\ Found(match) /\ validate_email(email) THEN Some(email) ELSE None))

\* the domains _validate_social_url takes for a network
domain_patterns ==
  [telegram |-> <<<<"t", ".", "m", "e">>, <<"t", "e", "l", "e", "g", "r", "a", "m", ".", "m", "e">>, <<"t", "e", "l", "e", "g", "r", "a", "m", ".", "o", "r", "g">>>>,
   whatsapp |-> <<<<"w", "a", ".", "m", "e">>, <<"a", "p", "i", ".", "w", "h", "a", "t", "s", "a", "p", "p", ".", "c", "o", "m">>>>,
   vk |-> <<<<"v", "k", ".", "c", "o", "m">>, <<"m", ".", "v", "k", ".", "c", "o", "m">>>>]
\* ContactParser._validate_social_url
validate_social_url(network, url) ==
  Let(Netloc(url),
      LAMBDA parsed :
  /\ ~parsed.raised
  /\ \E k \in 1..Len(domain_patterns[network]) :
       Contains(Lower(parsed.v), domain_patterns[network][k]))
\* the fewest digits of a WhatsApp number
MinWhatsAppDigits == 10
\* ContactParser._build_social_url of a match: the url, or None
build_social_url(network, match, text) ==
  Let(Sub(NotCls(Digit, 1, 1), <<>>, Group(match, text, 1), FALSE),
      LAMBDA clean_phone :
  CASE network = "telegram" -> Some(<<"h", "t", "t", "p", "s", ":", "/", "/", "t", ".", "m", "e", "/">> \o Group(match, text, 1))
    [] network = "whatsapp" -> IF Len(clean_phone) >= MinWhatsAppDigits
                               THEN Some(<<"h", "t", "t", "p", "s", ":", "/", "/", "w", "a", ".", "m", "e", "/">> \o clean_phone)
                               ELSE None
    [] network = "vk" -> Some(<<"h", "t", "t", "p", "s", ":", "/", "/", "v", "k", ".", "c", "o", "m", "/">> \o Group(match, text, 1)))
\* ContactParser._normalize_social_url of a non-empty str
normalize_social_url(network, url) ==
  Let(Strip(url),
      LAMBDA clean_url :
  LET match(k) == Search(SOCIAL_PATTERNS[network][k], 1, clean_url, TRUE)
  IN
  Let(FirstIndex(Len(SOCIAL_PATTERNS[network]), LAMBDA j : Found(match(j))),
      LAMBDA k :
  IF (StartsWith(clean_url, <<"h", "t", "t", "p", ":", "/", "/">>) \/ StartsWith(clean_url, <<"h", "t", "t", "p", "s", ":", "/", "/">>))
     /\ validate_social_url(network, clean_url)
  THEN Some(clean_url)
  ELSE IF k # 0 THEN build_social_url(network, match(k), clean_url)
  ELSE None))
\* the url of a network that one of its patterns finds in the text: the first pattern
\* that matches and gives a url
social_in_text(network, text) ==
  LET url(k) == Let(Search(SOCIAL_PATTERNS[network][k], 1, text, TRUE),
    LAMBDA match :
IF Found(match) THEN build_social_url(network, match, text) ELSE None)
  IN
  Let(FirstIndex(Len(SOCIAL_PATTERNS[network]), LAMBDA j : ~IsNone(url(j))),
      LAMBDA k :
  IF k = 0 THEN None ELSE url(k))
\* a dict of the networks whose url is found
SocialDict(url(_)) ==
  [network \in {Networks[k] : k \in {j \in 1..Len(Networks) : ~IsNone(url(Networks[j]))}}
     |-> Val(url(network))]
\* ContactParser._parse_social_networks of a dict whose values are str or None
parse_social_networks(d) ==
  LET url(network) == 
         Let(IF Has(d, network) THEN normalize_social_url(network, d[network].v)
             ELSE None,
             LAMBDA direct :
         IF ~IsNone(direct) THEN direct
         ELSE IF Has(d, "text") THEN social_in_text(network, d["text"].v)
         ELSE None)
  IN
  SocialDict(url)

\* ContactParser._auto_extract_contacts of a non-empty str: key and value pairs, in the
\* order of insertion, of what was found
auto_extract_contacts(text) ==
  Let(parse_phone(text),
      LAMBDA phone :
  Let(parse_email(text),
      LAMBDA email :
  Let(parse_website(text),
      LAMBDA website :
  Let(SocialDict(LAMBDA network : social_in_text(network, text)),
      LAMBDA social_networks :
  (IF IsNone(phone) THEN <<>> ELSE <<<<"phone", Val(phone)>>>>)
  \o (IF IsNone(email) THEN <<>> ELSE <<<<"email", Val(email)>>>>)
  \o (IF IsNone(website) THEN <<>> ELSE <<<<"website", Val(website)>>>>)
  \o (IF DOMAIN social_networks = {} THEN <<>>
      ELSE <<<<"social_networks", social_networks>>>>)))))

\* a value of contact_data is truthy
Filled(contact_data, key) ==
  IF key = "social_networks" THEN DOMAIN contact_data[key] # {} ELSE ~IsNone(contact_data[key])
\* the loop of parse over the pairs auto_extract found: a pair fills its field when the
\* field is still empty, at confidence 0.5
RECURSIVE merge_auto(_, _, _)
merge_auto(st, pairs, k) ==
  IF k > Len(pairs) THEN st
  ELSE Let(pairs[k][1],
           LAMBDA key :
       IF Filled(st.contact_data, key) THEN merge_auto(st, pairs, k + 1)
       ELSE merge_auto([contact_data |-> [st.contact_data EXCEPT ![key] =
                                            IF key = "social_networks" THEN pairs[k][2]
                                            ELSE Some(pairs[k][2])],
                        total_confidence |-> st.total_confidence + Tenths(5),
                        found_contacts |-> st.found_contacts + 1],
                       pairs, k + 1))

\* the first value of the dict the try block hands to a str operation although it is
\* truthy and no str, or None; every such value is reached
NotStrValue(d) ==
  Let(<<"phone", "website", "email", "telegram", "whatsapp", "vk", "text">>,
      LAMBDA keys :
  Let(FirstIndex(Len(keys), LAMBDA j : Has(d, keys[j]) /\ d[keys[j]].t # "str"),
      LAMBDA k :
  IF k = 0 THEN None ELSE Some(keys[k])))
\* ContactParser.parse, the body of its try block
ContactParser_try(raw_data) ==
  IF raw_data.t # "dict" THEN Raised("TypeError")
  ELSE IF ~IsNone(NotStrValue(raw_data.v))
  THEN Raised(IF Val(NotStrValue(raw_data.v)) \in {"phone", "email", "text"} THEN "TypeError"
              ELSE "AttributeError")
  ELSE Let(raw_data.v,
           LAMBDA d :
       Let(IF Has(d, "phone") THEN parse_phone(d["phone"].v) ELSE None,
           LAMBDA phone_result :
       Let(IF Has(d, "website") THEN parse_website(d["website"].v) ELSE None,
           LAMBDA website_result :
       Let(IF Has(d, "email") THEN parse_email(d["email"].v) ELSE None,
           LAMBDA email_result :
       Let(parse_social_networks(d),
           LAMBDA social_result :
       Let([contact_data |-> [phone |-> phone_result, website |-> website_result,
                              email |-> email_result, social_networks |-> social_result],
            total_confidence |->
              (IF IsNone(phone_result) THEN 0 ELSE Tenths(9))
              + (IF IsNone(website_result) THEN 0 ELSE Tenths(8))
              + (IF IsNone(email_result) THEN 0 ELSE Tenths(7))
              + Cardinality(DOMAIN social_result) * Tenths(6),
            found_contacts |->
              (IF IsNone(phone_result) THEN 0 ELSE 1)
              + (IF IsNone(website_result) THEN 0 ELSE 1)
              + (IF IsNone(email_result) THEN 0 ELSE 1)
              + Cardinality(DOMAIN social_result)],
           LAMBDA given :
       Let(IF Has(d, "text")
           THEN merge_auto(given, auto_extract_contacts(d["text"].v), 1)
           ELSE given,
           LAMBDA all :
       Let(all.total_confidence \div (IF all.found_contacts > 1 THEN all.found_contacts
                                      ELSE 1),
           LAMBDA average :
       Let(IF all.found_contacts > 0
           THEN (IF average < One THEN average ELSE One)
           ELSE 0,
           LAMBDA avg_confidence :
       Then(phone_result, Then(website_result, Then(email_result, Then(social_result,
       Then(all,
            Returned(create_result(all.contact_data, all.found_contacts > 0,
                                   avg_confidence))))))))))))))))

\* ContactParser.parse
ContactParser_parse(raw_data) ==
  IF Falsy(raw_data)
  THEN Returned(create_result(EmptyDict, FALSE, 0))
  ELSE Except(ContactParser_try(raw_data), EmptyDict, "contact parsing error")

----------------------------------------------------------------------------
(* models/enterprise.py: the website, the metadata and the construction    *)
(* of an Enterprise.                                                       *)

\* Enterprise.website: Optional[str] = Field(None, max_length=500)
Enterprise_website_Field(v) ==
  IF IsNone(v) THEN Valid(v)
  ELSE IF Len(Val(v)) > 500 THEN Invalid("string_too_long")
  ELSE Valid(v)

\* "yandex" in parsed.netloc.lower() and "maps" in v.lower()
IsYandexMaps(netloc, url) ==
  /\ Contains(Lower(netloc), <<"y", "a", "n", "d", "e", "x">>)
  /\ Contains(Lower(url), <<"m", "a", "p", "s">>)

\* the checks of validate_website on the stripped value with its scheme
validate_website_url(v, parsed) ==
  IF parsed.raised THEN Valid(None)
  ELSE IF Len(parsed.v) = 0 THEN Valid(None)
  ELSE IF IsYandexMaps(parsed.v, v) THEN Valid(None)
  ELSE Valid(Some(v))

\* Enterprise.validate_website
validate_website(v) ==
  IF IsNone(v) THEN Valid(None)
  ELSE IF Len(Val(v)) = 0 \/ Len(Strip(Val(v))) = 0 THEN Valid(None)
  ELSE validate_website_url(WithScheme(Strip(Val(v))), Netloc(WithScheme(Strip(Val(v)))))

\* the value populate_metadata stores under "extraction_stats" for an Enterprise
\* without services, reviews, phone, social networks and working hours
extraction_stats(rating, website) ==
  [t |-> "dict",
   v |-> [services_extracted |-> 0, reviews_extracted |-> 0,
          has_rating |-> ~IsNone(rating), has_phone |-> FALSE,
          has_website |-> ~IsNone(website), has_social_networks |-> FALSE,
          has_working_hours |-> FALSE]]

\* d[key] = value unless key is in d
SetDefault(d, key, value) == IF key \in DOMAIN d THEN d ELSE d @@ (key :> value)

\* Enterprise.populate_metadata: the metadata of the Enterprise after it
populate_metadata(metadata, rating, website) ==
  SetDefault(SetDefault(metadata, "scraper_version", Str(<<"1", ".", "0">>)),
             "extraction_stats", extraction_stats(rating, website))

\* Enterprise(name=..., rating=..., website=..., metadata=...) from its validated fields
Enterprise_validated(name, rating, website, metadata) ==
  IF ~name.ok THEN [ok |-> FALSE, error |-> name.error, field |-> "name"]
  ELSE IF ~rating.ok THEN [ok |-> FALSE, error |-> rating.error, field |-> "rating"]
  ELSE IF ~website.ok THEN [ok |-> FALSE, error |-> website.error, field |-> "website"]
  ELSE [ok |-> TRUE, name |-> name.v, rating |-> rating.v, website |-> website.v,
        metadata |-> populate_metadata(metadata, rating.v, website.v)]

\* Enterprise(**data); a website of None and a metadata of {} are the defaults
Enterprise(data) ==
  Enterprise_validated(Field(Enterprise_name_Field, validate_name, data.name),
                       Field(Enterprise_rating_Field, Enterprise_validate_rating, data.rating),
                       Field(Enterprise_website_Field, validate_website, data.website),
                       data.metadata)

----------------------------------------------------------------------------
(* models/working_hours.py                                                 *)

\* WorkingHours.WEEKDAYS: its keys, as texts, with the keys as the model writes them
WorkingHours_WEEKDAYS == <<
  <<<<"m", "o", "n", "d", "a", "y">>, "monday">>,
  <<<<"t", "u", "e", "s", "d", "a", "y">>, "tuesday">>,
  <<<<"w", "e", "d", "n", "e", "s", "d", "a", "y">>, "wednesday">>,
  <<<<"t", "h", "u", "r", "s", "d", "a", "y">>, "thursday">>,
  <<<<"f", "r", "i", "d", "a", "y">>, "friday">>,
  <<<<"s", "a", "t", "u", "r", "d", "a", "y">>, "saturday">>,
  <<<<"s", "u", "n", "d", "a", "y">>, "sunday">> >>
\* WorkingHours.WEEKDAY_ALIASES, in dict order
WEEKDAY_ALIASES == <<
  <<<<"ru_p", "ru_n">>, "monday">>,
  <<<<"ru_p", "ru_o", "ru_n", "ru_e", "ru_d", "ru_e", "ru_l", "ru_soft", "ru_n", "ru_i", "ru_k">>, "monday">>,
  <<<<"ru_p", "ru_o", "ru_n">>, "monday">>,
  <<<<"ru_v", "ru_t">>, "tuesday">>,
  <<<<"ru_v", "ru_t", "ru_o", "ru_r", "ru_n", "ru_i", "ru_k">>, "tuesday">>,
  <<<<"ru_v", "ru_t", "ru_o", "ru_r">>, "tuesday">>,
  <<<<"ru_s", "ru_r">>, "wednesday">>,
  <<<<"ru_s", "ru_r", "ru_e", "ru_d", "ru_a">>, "wednesday">>,
  <<<<"ru_s", "ru_r", "ru_e", "ru_d">>, "wednesday">>,
  <<<<"ru_ch", "ru_t">>, "thursday">>,
  <<<<"ru_ch", "ru_e", "ru_t", "ru_v", "ru_e", "ru_r", "ru_g">>, "thursday">>,
  <<<<"ru_ch", "ru_e", "ru_t", "ru_v">>, "thursday">>,
  <<<<"ru_p", "ru_t">>, "friday">>,
  <<<<"ru_p", "ru_ya", "ru_t", "ru_n", "ru_i", "ru_c", "ru_a">>, "friday">>,
  <<<<"ru_p", "ru_ya", "ru_t">>, "friday">>,
  <<<<"ru_s", "ru_b">>, "saturday">>,
  <<<<"ru_s", "ru_u", "ru_b", "ru_b", "ru_o", "ru_t", "ru_a">>, "saturday">>,
  <<<<"ru_s", "ru_u", "ru_b">>, "saturday">>,
  <<<<"ru_v", "ru_s">>, "sunday">>,
  <<<<"ru_v", "ru_o", "ru_s", "ru_k", "ru_r", "ru_e", "ru_s", "ru_e", "ru_n", "ru_soft", "ru_e">>, "sunday">>,
  <<<<"ru_v", "ru_o", "ru_s", "ru_k">>, "sunday">> >>

\* the aliases that day starts with or that start with day
PartialAliases(day) ==
  {k \in 1..Len(WEEKDAY_ALIASES) :
     StartsWith(day, WEEKDAY_ALIASES[k][1]) \/ StartsWith(WEEKDAY_ALIASES[k][1], day)}

\* _normalize_weekday that keeps a day it does not know, "as is" standing for that day
normalize_weekday_kept(day0) ==
  IF ~IsNone(Lookup(WorkingHours_WEEKDAYS, Strip(Lower(day0))))
  THEN Lookup(WorkingHours_WEEKDAYS, Strip(Lower(day0)))
  ELSE IF ~IsNone(Lookup(WEEKDAY_ALIASES, Strip(Lower(day0))))
  THEN Lookup(WEEKDAY_ALIASES, Strip(Lower(day0)))
  ELSE Some("as is")

\* _normalize_weekday with the direct correspondence only
normalize_weekday_direct(day0) == Lookup(WorkingHours_WEEKDAYS, Strip(Lower(day0)))

\* WorkingHours._normalize_weekday: the key of the day, or None
normalize_weekday(day0) ==
  Let(Strip(Lower(day0)),
      LAMBDA day :
  IF ~IsNone(Lookup(WorkingHours_WEEKDAYS, day)) THEN Lookup(WorkingHours_WEEKDAYS, day)
  ELSE IF ~IsNone(Lookup(WEEKDAY_ALIASES, day)) THEN Lookup(WEEKDAY_ALIASES, day)
  ELSE IF PartialAliases(day) # {}
  THEN Some(WEEKDAY_ALIASES[CHOOSE k \in PartialAliases(day) :
                              \A j \in PartialAliases(day) : k <= j][2])
  ELSE None)

\* "всегда"
W_vsegda == <<"ru_v", "ru_s", "ru_e", "ru_g", "ru_d", "ru_a">>
\* closed_patterns of _normalize_working_hours: "выходной", "закрыт", "не работает", "closed"
closed_patterns == {W_vyhodnoj, W_zakryt, W_ne \o <<" ">> \o W_rabotaet,
                    <<"c", "l", "o", "s", "e", "d">>}
\* "24", "круглосуточно", "24/7", "всегда"
around_the_clock_patterns == {<<"2", "4">>, W_kruglosutochno, <<"2", "4", "/", "7">>, W_vsegda}

\* the time_patterns of _normalize_working_hours: those of _extract_working_hours and
\* от\s*(\d{1,2}):?(\d{0,2})\s*до\s*(\d{1,2}):?(\d{0,2})
WorkingHours_time_patterns ==
  time_patterns \o
  <<[re |-> Lit(W_ot) \o Cls(Whitespace, 0, Unbounded) \o HourMinute(1)
            \o Cls(Whitespace, 0, Unbounded) \o Lit(W_do) \o Cls(Whitespace, 0, Unbounded)
            \o HourMinute(3), ng |-> 4]>>

\* "HH:MM-HH:MM" when the four numbers are a time of day each, None otherwise
FormatHours(start_h, start_m, end_h, end_m) ==
  IF 0 <= start_h /\ start_h <= 23 /\ 0 <= start_m /\ start_m <= 59
     /\ 0 <= end_h /\ end_h <= 23 /\ 0 <= end_m /\ end_m <= 59
  THEN Some(Fmt02(start_h) \o <<":">> \o Fmt02(start_m) \o <<"-">>
            \o Fmt02(end_h) \o <<":">> \o Fmt02(end_m))
  ELSE None

\* the hours a match of a pattern with ng groups gives
MatchedHours(m, ng, hours) ==
  IF ~Found(m) THEN None
  ELSE IF ng = 4
  THEN FormatHours(ToInt(Group(m, hours, 1)), ToInt(OrZeros(Group(m, hours, 2))),
                   ToInt(Group(m, hours, 3)), ToInt(OrZeros(Group(m, hours, 4))))
  ELSE FormatHours(ToInt(Group(m, hours, 1)), 0, ToInt(Group(m, hours, 2)), 0)

\* the loop over time_patterns from pattern k on; the text itself when none gives a time
RECURSIVE normalize_hours_from(_, _)
normalize_hours_from(hours, k) ==
  IF k > Len(WorkingHours_time_patterns) THEN Some(hours)
  ELSE Let(MatchedHours(Search(WorkingHours_time_patterns[k].re,
                               WorkingHours_time_patterns[k].ng, hours, FALSE),
                        WorkingHours_time_patterns[k].ng, hours),
           LAMBDA found :
       IF ~IsNone(found) THEN found ELSE normalize_hours_from(hours, k + 1))

\* WorkingHours._normalize_working_hours
normalize_working_hours(hours0) ==
  IF Len(hours0) = 0 \/ Len(Strip(hours0)) = 0 THEN None
  ELSE Let(Strip(hours0),
           LAMBDA hours :
       IF \E w \in closed_patterns : Contains(Lower(hours), w) THEN Some(S_Vyhodnoj)
       ELSE IF \E w \in around_the_clock_patterns : Contains(Lower(hours), w)
       THEN Some(S_Kruglosutochno)
       ELSE normalize_hours_from(hours, 1))

\* one turn of the loop of validate_schedule: the entry <<day, hours>> put into the
\* normalized schedule, or skipped
schedule_entry(normalized_schedule, day, normalized_day, normalized_hours) ==
  IF Len(day) = 0 \/ IsNone(normalized_day) \/ IsNone(normalized_hours)
  THEN normalized_schedule
  ELSE IF Len(Val(normalized_hours)) = 0 THEN normalized_schedule
  ELSE Update(normalized_schedule, Val(normalized_day) :> Val(normalized_hours))

\* the loop of validate_schedule over v.items() from item k on
RECURSIVE schedule_entries(_, _, _)
schedule_entries(v, k, normalized_schedule) ==
  IF k > Len(v) THEN normalized_schedule
  ELSE schedule_entries(v, k + 1,
         schedule_entry(normalized_schedule, v[k][1],
                        normalize_weekday(Strip(Lower(v[k][1]))),
                        normalize_working_hours(Strip(v[k][2]))))

\* WorkingHours.validate_schedule of None or of the items of a dict of str to str
validate_schedule(v) ==
  IF IsNone(v) THEN None
  ELSE IF Len(Val(v)) = 0 THEN None
  ELSE Let(schedule_entries(Val(v), 1, EmptySchedule),
           LAMBDA normalized_schedule :
       IF DOMAIN normalized_schedule = {} THEN None ELSE Some(normalized_schedule))

\* WorkingHours(schedule=...)
WorkingHours(data) == [ok |-> TRUE, schedule |-> validate_schedule(data.schedule)]

----------------------------------------------------------------------------
(* models/service.py                                                       *)

\* Service.name: Field(..., min_length=1, max_length=200)
Service_name_Field(v) ==
  IF Len(v) < 1 THEN Invalid("string_too_short")
  ELSE IF Len(v) > 200 THEN Invalid("string_too_long")
  ELSE Valid(v)

\* Service.validate_name
Service_validate_name(v) ==
  IF Len(v) = 0 \/ Len(Strip(v)) = 0 THEN Invalid("value_error") ELSE Valid(Strip(v))

\* Service.price_from and Service.price_to: Optional[str] = Field(None, max_length=20)
Service_price_Field(v) ==
  IF IsNone(v) THEN Valid(v)
  ELSE IF Len(Val(v)) > 20 THEN Invalid("string_too_long")
  ELSE Valid(v)

\* ^[\d\s.,₽руб-]+$
PriceFormatRe ==
  Bol \o Cls(Digit \cup Whitespace \cup {".", ",", "RUB", "ru_r", "ru_u", "ru_b", "-"},
             1, Unbounded) \o Eol

\* Service.validate_price_fields
validate_price_fields(v) ==
  IF IsNone(v) THEN Valid(None)
  ELSE IF Len(Strip(Val(v))) = 0 THEN Valid(None)
  ELSE IF ~Found(Match(PriceFormatRe, 0, Strip(Val(v)), TRUE)) THEN Invalid("value_error")
  ELSE Valid(Some(Strip(Val(v))))

\* re.sub(r"[^\d.]", "", price)
PriceDigits(price) == SelectSeq(price, LAMBDA c : c \in Digit \cup {"."})
\* float(text) raises ValueError unless the text of digits and points is a number
IsFloatText(text) ==
  /\ \E i \in 1..Len(text) : text[i] \in Digit
  /\ Cardinality({i \in 1..Len(text) : text[i] = "."}) <= 1

\* the try block of validate_price_range when price_from and price_to are set:
\* float() raises ValueError, and so does the test from_val > to_val
price_range_try(from_text, to_text) ==
  IF ~IsFloatText(from_text) \/ ~IsFloatText(to_text) THEN Raised("ValueError")
  ELSE IF FloatLess(ToFloat(to_text), ToFloat(from_text)) THEN Raised("ValueError")
  ELSE Returned(None)

\* validate_price_range without its except clause
validate_price_range_uncaught(price_from, price_to) ==
  IF IsNone(price_from) \/ IsNone(price_to) THEN Returned(None)
  ELSE price_range_try(PriceDigits(Val(price_from)), PriceDigits(Val(price_to)))

\* Service.validate_price_range: except (ValueError, TypeError): pass
validate_price_range(price_from, price_to) ==
  IF IsNone(price_from) \/ IsNone(price_to) THEN Returned(None)
  ELSE IF price_range_try(PriceDigits(Val(price_from)), PriceDigits(Val(price_to))).exc
          \in {"ValueError", "TypeError"}
  THEN Returned(None)
  ELSE price_range_try(PriceDigits(Val(price_from)), PriceDigits(Val(price_to)))

\* Service(name=..., price_from=..., price_to=...) from its validated fields
Service_validated(name, price_from, price_to) ==
  IF ~name.ok THEN [ok |-> FALSE, error |-> name.error, field |-> "name"]
  ELSE IF ~price_from.ok
  THEN [ok |-> FALSE, error |-> price_from.error, field |-> "price_from"]
  ELSE IF ~price_to.ok THEN [ok |-> FALSE, error |-> price_to.error, field |-> "price_to"]
  ELSE IF validate_price_range(price_from.v, price_to.v).raised
  THEN [ok |-> FALSE, error |-> "value_error", field |-> "__root__"]
  ELSE [ok |-> TRUE, name |-> name.v, price_from |-> price_from.v, price_to |-> price_to.v]

\* Service(**data)
Service(data) ==
  Service_validated(Field(Service_name_Field, Service_validate_name, data.name),
                    Field(Service_price_Field, validate_price_fields, data.price_from),
                    Field(Service_price_Field, validate_price_fields, data.price_to))

----------------------------------------------------------------------------
(* models/social_networks.py                                               *)

\* https?://
HttpScheme == Lit(<<"h", "t", "t", "p">>) \o Cls({"s"}, 0, 1) \o Lit(<<":", "/", "/">>)

\* valid_patterns of validate_telegram
telegram_valid_patterns ==
  << Bol \o HttpScheme \o Lit(<<"t", ".", "m", "e", "/">>) \o Cls(WordChar, 1, Unbounded),
     Bol \o HttpScheme \o Lit(<<"t", "e", "l", "e", "g", "r", "a", "m", ".", "m", "e", "/">>) \o Cls(WordChar, 1, Unbounded),
     Bol \o HttpScheme \o Lit(<<"t", "e", "l", "e", "g", "r", "a", "m", ".", "o", "r", "g", "/">>) \o Cls(WordChar, 1, Unbounded),
     Bol \o Lit(<<"@">>) \o Cls(WordChar, 1, Unbounded) \o Eol >>

\* any(re.match(pattern, v, re.IGNORECASE) for pattern in valid_patterns)
AnyMatch(valid_patterns, v) ==
  \E p \in 1..Len(valid_patterns) : Found(Match(valid_patterns[p], 0, v, TRUE))

\* validate_telegram once v is stripped and not empty
validate_telegram_stripped(v) ==
  IF StartsWith(v, <<"@">>) THEN Some(<<"h", "t", "t", "p", "s", ":", "/", "/", "t", ".", "m", "e", "/">> \o Slice(v, 2, Len(v) + 1))
  ELSE IF ~AnyMatch(telegram_valid_patterns, v) /\ ~StartsWith(v, <<"h", "t", "t", "p">>)
  THEN IF StartsWith(v, <<"t", ".", "m", "e", "/">>) \/ StartsWith(v, <<"t", "e", "l", "e", "g", "r", "a", "m", ".", "m", "e", "/">>)
       THEN Some(<<"h", "t", "t", "p", "s", ":", "/", "/">> \o v)
       ELSE Some(<<"h", "t", "t", "p", "s", ":", "/", "/", "t", ".", "m", "e", "/">> \o v)
  ELSE Some(v)

\* SocialNetworks.validate_telegram
validate_telegram(v) ==
  IF IsNone(v) THEN Valid(None)
  ELSE IF Len(Val(v)) = 0 THEN Valid(None)
  ELSE IF Len(Strip(Val(v))) = 0 THEN Valid(None)
  ELSE Valid(validate_telegram_stripped(Strip(Val(v))))

\* ^\+?\d{10,15}$
WhatsappPhoneRe == Bol \o Cls({"+"}, 0, 1) \o Cls(Digit, 10, 15) \o Eol

\* validate_whatsapp once v is stripped and not empty; a value that matches
\* none of the valid patterns is returned as it is
validate_whatsapp_stripped(v) ==
  IF Found(Match(WhatsappPhoneRe, 0, v, FALSE))
  THEN Some(<<"h", "t", "t", "p", "s", ":", "/", "/", "w", "a", ".", "m", "e", "/">> \o DigitsOf(v))
  ELSE Some(v)

\* SocialNetworks.validate_whatsapp
validate_whatsapp(v) ==
  IF IsNone(v) THEN Valid(None)
  ELSE IF Len(Val(v)) = 0 THEN Valid(None)
  ELSE IF Len(Strip(Val(v))) = 0 THEN Valid(None)
  ELSE Valid(validate_whatsapp_stripped(Strip(Val(v))))

\* valid_patterns of validate_vk
vk_valid_patterns ==
  << Bol \o HttpScheme \o Lit(<<"v", "k", ".", "c", "o", "m", "/">>) \o Cls(WordChar \cup {"."}, 1, Unbounded),
     Bol \o HttpScheme \o Lit(<<"m", ".", "v", "k", ".", "c", "o", "m", "/">>) \o Cls(WordChar \cup {"."}, 1, Unbounded) >>

\* validate_vk once v is stripped and not empty
validate_vk_stripped(v) ==
  IF ~StartsWith(v, <<"h", "t", "t", "p">>) /\ ~Contains(v, <<"/">>) THEN Some(<<"h", "t", "t", "p", "s", ":", "/", "/", "v", "k", ".", "c", "o", "m", "/">> \o v)
  ELSE IF ~AnyMatch(vk_valid_patterns, v) /\ ~StartsWith(v, <<"h", "t", "t", "p">>)
  THEN Some(<<"h", "t", "t", "p", "s", ":", "/", "/", "v", "k", ".", "c", "o", "m", "/">> \o v)
  ELSE Some(v)

\* SocialNetworks.validate_vk
validate_vk(v) ==
  IF IsNone(v) THEN Valid(None)
  ELSE IF Len(Val(v)) = 0 THEN Valid(None)
  ELSE IF Len(Strip(Val(v))) = 0 THEN Valid(None)
  ELSE Valid(validate_vk_stripped(Strip(Val(v))))

\* SocialNetworks(telegram=..., whatsapp=..., vk=...): the three fields have
\* no constraint and their validators never raise
SocialNetworks(data) ==
  [ok |-> TRUE,
   telegram |-> validate_telegram(data.telegram).v,
   whatsapp |-> validate_whatsapp(data.whatsapp).v,
   vk |-> validate_vk(data.vk).v]

----------------------------------------------------------------------------
(* enterprise_data_extractor.py                                            *)

\* settings.YANDEX_MAPS_DOMAINS: yandex.ru, yandex.com, yandex.com.ge, yandex.by, yandex.kz, yandex.uz
YANDEX_MAPS_DOMAINS ==
  {<<"y", "a", "n", "d", "e", "x", ".", "r", "u">>,
   <<"y", "a", "n", "d", "e", "x", ".", "c", "o", "m">>,
   <<"y", "a", "n", "d", "e", "x", ".", "c", "o", "m", ".", "g", "e">>,
   <<"y", "a", "n", "d", "e", "x", ".", "b", "y">>,
   <<"y", "a", "n", "d", "e", "x", ".", "k", "z">>,
   <<"y", "a", "n", "d", "e", "x", ".", "u", "z">>}

\* urlparse(url).path of a url with a netloc: what follows the netloc, up to
\* the query or the fragment
ParsedPath(url, netloc) ==
  Let(CHOOSE i \in 1..Len(url) : MatchesAt(url, <<"/", "/">> \o netloc, i)
                                 /\ \A j \in 1..(i - 1) : ~MatchesAt(url, <<"/", "/">> \o netloc, j),
      LAMBDA at :
  Let(at + 2 + Len(netloc),
      LAMBDA from :
  Let({i \in from..Len(url) : url[i] \in {"?", "#"}},
      LAMBDA stops :
  Slice(url, from, IF stops = {} THEN Len(url) + 1
                   ELSE CHOOSE i \in stops : \A j \in stops : i <= j))))

\* EnterpriseDataExtractor._validate_url: the scheme is http or https, the
\* netloc contains a domain of the map service and the path contains "/maps/";
\* an exception of urlparse gives False
Extractor_validate_url(url) ==
  /\ \/ StartsWith(Lower(url), <<"h", "t", "t", "p", ":", "/", "/">>)
     \/ StartsWith(Lower(url), <<"h", "t", "t", "p", "s", ":", "/", "/">>)
  /\ ~Netloc(url).raised
  /\ \E domain \in YANDEX_MAPS_DOMAINS : Contains(Netloc(url).v, domain)
  /\ Contains(ParsedPath(url, Netloc(url).v), <<"/", "m", "a", "p", "s", "/">>)

\* EnterpriseDataExtractor.extract_single(url, output_dir=output_dir) where the
\* environment decides whether the output directory can be made and whether
\* the page gives business data.  UnifiedExporter(output_dir) runs before the
\* try block, so its OSError leaves extract_single; everything else is caught
\* and comes back as a result with success False.
extract_single(url, output_dir, env) ==
  IF ~IsNone(output_dir) /\ env.mkdir_fails THEN Raised("OSError")
  ELSE IF ~Extractor_validate_url(url)
  THEN Returned([success |-> FALSE, url |-> url, error |-> "ValueError"])
  ELSE IF ~env.scraped
  THEN Returned([success |-> FALSE, url |-> url, error |-> "Exception"])
  ELSE Returned([success |-> TRUE, url |-> url, error |-> ""])

\* ExtractionResult() with total_urls set; i is the position of the loop of
\* extract_batch and attempted the urls extract_single was called with
ExtractionResult(urls) ==
  [pc |-> IF Len(urls) = 0 THEN "returned" ELSE "loop", i |-> 1, total_urls |-> Len(urls),
   successful_extractions |-> <<>>, failed_extractions |-> <<>>, attempted |-> <<>>]

\* the try block of the loop of extract_batch and its except clause, without
\* the test of continue_on_error: the url is recorded once, by add_successful
\* (the business data, here named by its url) or by add_failed(url, error)
recorded(result, url, single) ==
  IF single.raised
  THEN [result EXCEPT !.failed_extractions = Append(@, [url |-> url, error |-> single.exc]),
                      !.attempted = Append(@, url)]
  ELSE IF single.v.success
  THEN [result EXCEPT !.successful_extractions = Append(@, url), !.attempted = Append(@, url)]
  ELSE [result EXCEPT !.failed_extractions = Append(@, [url |-> url, error |-> single.v.error]),
                      !.attempted = Append(@, url)]

\* the loop of extract_batch that stops at every exception
breaks_always(single, continue_on_error) == single.raised

\* if not continue_on_error: break, in the except clause only
breaks(single, continue_on_error) == single.raised /\ ~continue_on_error

\* time.sleep(delay_between) raises ValueError for a negative delay; None
\* stands for the default (MIN_DELAY + MAX_DELAY) / 2
sleep_raises(delay_between) == ~IsNone(delay_between) /\ Val(delay_between) < 0

\* one turn of the loop of extract_batch, with what follows the loop when it
\* was the last: the url is recorded, the loop breaks or sleeps and goes on
batch_iteration(result, urls, single, continue_on_error, delay_between) ==
  Let(recorded(result, urls[result.i], single),
      LAMBDA after :
  IF breaks(single, continue_on_error) THEN [after EXCEPT !.pc = "returned"]
  ELSE IF result.i >= Len(urls) THEN [after EXCEPT !.pc = "returned"]
  ELSE IF sleep_raises(delay_between) THEN [after EXCEPT !.pc = "raised"]
  ELSE [after EXCEPT !.i = @ + 1])

----------------------------------------------------------------------------
(* The calls a client makes and the values it passes.                      *)

\* the longest name tried
MaxNameLen == 3
\* one character of each kind validate_name tells apart
NameChars == {" ", "a", "<", ">", "!"}
RECURSIVE Texts(_, _)
Texts(chars, n) ==
  IF n = 0 THEN {<<>>}
  ELSE LET shorter == Texts(chars, n - 1)
       IN shorter \cup {Append(t, c) : t \in {u \in shorter : Len(u) = n - 1}, c \in chars}
NameInputs == Texts(NameChars, MaxNameLen)
\* ratings in hundredths, inside, on and outside the bounds 0.0 and 5.0
RatingInputs == {None} \cup {Some(v) : v \in {-100, -10, -4, 0, 4, 250, 496, 500, 504, 510, 600}}
\* "", "https://", "http://"
UrlSchemes == {<<>>, <<"h", "t", "t", "p", "s", ":", "/", "/">>, <<"h", "t", "t", "p", ":", "/", "/">>}
\* "", "/maps/org/123", "/profile/123"
UrlPaths == {<<>>, <<"/", "m", "a", "p", "s", "/", "o", "r", "g", "/", "1", "2", "3">>,
            <<"/", "p", "r", "o", "f", "i", "l", "e", "/", "1", "2", "3">>}
\* the urls on a domain of the map service
YandexUrls ==
  {scheme \o domain \o path :
     scheme \in UrlSchemes, domain \in YANDEX_MAPS_DOMAINS, path \in UrlPaths}
\* "salon.ru", "https://salon.ru/maps", "https://maps.yandex.ru/org/1", "  www.salon.ru/price ", "salon", "https://[salon.ru"
OtherUrls ==
  {<<"s", "a", "l", "o", "n", ".", "r", "u">>,
   <<"h", "t", "t", "p", "s", ":", "/", "/", "s", "a", "l", "o", "n", ".", "r", "u", "/", "m", "a", "p", "s">>,
   <<"h", "t", "t", "p", "s", ":", "/", "/", "m", "a", "p", "s", ".", "y", "a", "n", "d", "e", "x", ".", "r", "u", "/", "o", "r", "g", "/", "1">>,
   <<" ", " ", "w", "w", "w", ".", "s", "a", "l", "o", "n", ".", "r", "u", "/", "p", "r", "i", "c", "e", " ">>,
   <<"s", "a", "l", "o", "n">>,
   <<"h", "t", "t", "p", "s", ":", "/", "/", "[", "s", "a", "l", "o", "n", ".", "r", "u">>}
\* the values passed to ContactParser.parse_website and as the website of an Enterprise
WebsiteInputs == YandexUrls \cup OtherUrls

\* the metadata a caller passes: none, a source url, a source url and a version, statistics
MetadataInputs ==
  {EmptyDict,
   "source_url" :> Str(<<"h", "t", "t", "p", "s", ":", "/", "/", "y", "a", "n", "d", "e", "x", ".", "r", "u", "/", "m", "a", "p", "s", "/", "o", "r", "g", "/", "1", "2", "3">>),
   ("source_url" :> Str(<<"h", "t", "t", "p", "s", ":", "/", "/", "y", "a", "n", "d", "e", "x", ".", "r", "u", "/", "m", "a", "p", "s", "/", "o", "r", "g", "/", "1", "2", "3">>)) @@ ("scraper_version" :> Str(<<"2", ".", "0">>)),
   "extraction_stats" :> [t |-> "dict", v |-> [services_extracted |-> 3]]}
\* the keyword arguments of Enterprise(...): names and ratings, websites, metadata
EnterpriseInputs ==
  {[name |-> n, rating |-> r, website |-> None, metadata |-> EmptyDict] :
     n \in NameInputs, r \in RatingInputs}
  \cup {[name |-> <<"a">>, rating |-> None, website |-> Some(w), metadata |-> EmptyDict] :
          w \in WebsiteInputs}
  \cup {[name |-> <<"a">>, rating |-> r, website |-> w, metadata |-> m] :
          r \in {None, Some(450)}, w \in {None, Some(<<"s", "a", "l", "o", "n", ".", "r", "u">>)}, m \in MetadataInputs}

\* the day keys with the names each is to be found under: the Russian name, its
\* abbreviation of two letters and the English name
DayNames == <<
  [key |-> "monday",
   names |-> {<<"ru_p", "ru_o", "ru_n", "ru_e", "ru_d", "ru_e", "ru_l", "ru_soft", "ru_n", "ru_i", "ru_k">>,
             <<"ru_p", "ru_n">>, <<"m", "o", "n", "d", "a", "y">>}],
  [key |-> "tuesday",
   names |-> {<<"ru_v", "ru_t", "ru_o", "ru_r", "ru_n", "ru_i", "ru_k">>,
             <<"ru_v", "ru_t">>, <<"t", "u", "e", "s", "d", "a", "y">>}],
  [key |-> "wednesday",
   names |-> {<<"ru_s", "ru_r", "ru_e", "ru_d", "ru_a">>,
             <<"ru_s", "ru_r">>, <<"w", "e", "d", "n", "e", "s", "d", "a", "y">>}],
  [key |-> "thursday",
   names |-> {<<"ru_ch", "ru_e", "ru_t", "ru_v", "ru_e", "ru_r", "ru_g">>,
             <<"ru_ch", "ru_t">>, <<"t", "h", "u", "r", "s", "d", "a", "y">>}],
  [key |-> "friday",
   names |-> {<<"ru_p", "ru_ya", "ru_t", "ru_n", "ru_i", "ru_c", "ru_a">>,
             <<"ru_p", "ru_t">>, <<"f", "r", "i", "d", "a", "y">>}],
  [key |-> "saturday",
   names |-> {<<"ru_s", "ru_u", "ru_b", "ru_b", "ru_o", "ru_t", "ru_a">>,
             <<"ru_s", "ru_b">>, <<"s", "a", "t", "u", "r", "d", "a", "y">>}],
  [key |-> "sunday",
   names |-> {<<"ru_v", "ru_o", "ru_s", "ru_k", "ru_r", "ru_e", "ru_s", "ru_e", "ru_n", "ru_soft", "ru_e">>,
             <<"ru_v", "ru_s">>, <<"s", "u", "n", "d", "a", "y">>}] >>
\* "Понедельник", " пн ", "mon", "Monday", "п", " ", "", "все дни", "holiday", "среду"
OtherDayNames ==
  {<<"RU_P", "ru_o", "ru_n", "ru_e", "ru_d", "ru_e", "ru_l", "ru_soft", "ru_n", "ru_i", "ru_k">>,
   <<" ", "ru_p", "ru_n", " ">>,
   <<"m", "o", "n">>,
   <<"M", "o", "n", "d", "a", "y">>,
   <<"ru_p">>,
   <<" ">>,
   <<>>,
   <<"ru_v", "ru_s", "ru_e", " ", "ru_d", "ru_n", "ru_i">>,
   <<"h", "o", "l", "i", "d", "a", "y">>,
   <<"ru_s", "ru_r", "ru_e", "ru_d", "ru_u">>}
\* the values passed as the name of a day
DayNameInputs == UNION {DayNames[k].names : k \in 1..7} \cup OtherDayNames

\* the hours and the minutes of the canonical entries tried
HourValues == {0, 9, 23}
MinuteValues == {0, 24, 59}
\* "HH:MM-HH:MM"
CanonicalEntry(start_h, start_m, end_h, end_m) ==
  Fmt02(start_h) \o <<":">> \o Fmt02(start_m) \o <<"-">> \o Fmt02(end_h) \o <<":">> \o Fmt02(end_m)
CanonicalEntries ==
  {CanonicalEntry(start_h, start_m, end_h, end_m) :
     start_h \in HourValues, start_m \in MinuteValues,
     end_h \in HourValues, end_m \in MinuteValues}
\* "9-21", "с 9 до 21", "от 9:00 до 21:00", "выходной", "Круглосуточно", "25:00-26:00", "по записи", "", "9:00 - 18:00", " "
OtherHours ==
  {<<"9", "-", "2", "1">>,
   <<"ru_s", " ", "9", " ", "ru_d", "ru_o", " ", "2", "1">>,
   <<"ru_o", "ru_t", " ", "9", ":", "0", "0", " ", "ru_d", "ru_o", " ", "2", "1", ":", "0", "0">>,
   <<"ru_v", "ru_y", "ru_h", "ru_o", "ru_d", "ru_n", "ru_o", "ru_j">>,
   <<"RU_K", "ru_r", "ru_u", "ru_g", "ru_l", "ru_o", "ru_s", "ru_u", "ru_t", "ru_o", "ru_ch", "ru_n", "ru_o">>,
   <<"2", "5", ":", "0", "0", "-", "2", "6", ":", "0", "0">>,
   <<"ru_p", "ru_o", " ", "ru_z", "ru_a", "ru_p", "ru_i", "ru_s", "ru_i">>,
   <<>>,
   <<"9", ":", "0", "0", " ", "-", " ", "1", "8", ":", "0", "0">>,
   <<" ">>}
\* the values passed as the hours of a day
HoursInputs == CanonicalEntries \cup OtherHours

\* the schedules passed to WorkingHours, as the items of the dict: one day with
\* "09:00-18:00", one day with other hours, two days
WorkingHoursInputs ==
  {None, Some(<<>>)}
  \cup {Some(<< <<day, CanonicalEntry(9, 0, 23, 0)>> >>) : day \in DayNameInputs}
  \cup {Some(<< <<<<"ru_p", "ru_n">>, hours>> >>) : hours \in OtherHours}
  \cup {Some(<< <<first, CanonicalEntry(9, 0, 23, 0)>>, <<second, CanonicalEntry(0, 0, 9, 59)>> >>) :
          first \in {<<"ru_p", "ru_n">>, <<"h", "o", "l", "i", "d", "a", "y">>},
          second \in {<<"m", "o", "n", "d", "a", "y">>, <<"ru_v", "ru_t">>, <<"x", "y", "z">>}}

\* "100", "500", "1000", "99.50", "1 000 руб", "1.2.3", "abc", " ", "-", "1000 РУБ", "500,5"
PriceTexts ==
  {<<"1", "0", "0">>,
   <<"5", "0", "0">>,
   <<"1", "0", "0", "0">>,
   <<"9", "9", ".", "5", "0">>,
   <<"1", " ", "0", "0", "0", " ", "ru_r", "ru_u", "ru_b">>,
   <<"1", ".", "2", ".", "3">>,
   <<"a", "b", "c">>,
   <<" ">>,
   <<"-">>,
   <<"1", "0", "0", "0", " ", "RU_R", "RU_U", "RU_B">>,
   <<"5", "0", "0", ",", "5">>}
\* the keyword arguments of Service(...): a name and two prices, or a name
ServiceModelInputs ==
  {[name |-> <<"RU_M", "ru_a", "ru_n", "ru_i", "ru_k", "ru_yu", "ru_r">>, price_from |-> price_from, price_to |-> price_to] :
     price_from, price_to \in {None} \cup {Some(price) : price \in PriceTexts}}
  \cup {[name |-> name, price_from |-> None, price_to |-> None] : name \in {<<>>, <<" ">>}}

\* the values tried for telegram: user names, links of each scheme and host, other text
TelegramInputs ==
  { None,
    Some(<<>>),
    Some(<<" ">>),
    Some(<<"@", "s", "a", "l", "o", "n">>),
    Some(<<"s", "a", "l", "o", "n">>),
    Some(<<"h", "t", "t", "p", "s", ":", "/", "/", "t", ".", "m", "e", "/", "s", "a", "l", "o", "n">>),
    Some(<<"h", "t", "t", "p", ":", "/", "/", "t", ".", "m", "e", "/", "s", "a", "l", "o", "n">>),
    Some(<<"t", ".", "m", "e", "/", "s", "a", "l", "o", "n">>),
    Some(<<"t", "e", "l", "e", "g", "r", "a", "m", ".", "m", "e", "/", "s", "a", "l", "o", "n">>),
    Some(<<"h", "t", "t", "p", "s", ":", "/", "/", "e", "x", "a", "m", "p", "l", "e", ".", "c", "o", "m", "/", "x">>),
    Some(<<" ", "@", "s", "a", "l", "o", "n", " ">>),
    Some(<<"H", "T", "T", "P", "S", ":", "/", "/", "T", ".", "M", "E", "/", "s", "a", "l", "o", "n">>),
    Some(<<"s", "a", "l", "o", "n", ".", "s", "p", "b">>),
    Some(<<"h", "t", "t", "p", "s", ":", "/", "/", "t", "e", "l", "e", "g", "r", "a", "m", ".", "o", "r", "g", "/", "s", "a", "l", "o", "n">>) }
\* the values tried for whatsapp: phone numbers bare and formatted, links, other text
WhatsappInputs ==
  { None,
    Some(<<>>),
    Some(<<"8", "9", "9", "9", "1", "2", "3", "4", "5", "6", "7">>),
    Some(<<"+", "7", "9", "9", "9", "1", "2", "3", "4", "5", "6", "7">>),
    Some(<<"+", "7", " ", "(", "9", "9", "9", ")", " ", "1", "2", "3", "-", "4", "5", "-", "6", "7">>),
    Some(<<"h", "t", "t", "p", "s", ":", "/", "/", "w", "a", ".", "m", "e", "/", "7", "9", "9", "9", "1", "2", "3", "4", "5", "6", "7">>),
    Some(<<"h", "e", "l", "l", "o">>),
    Some(<<"1", "2", "3", "4", "5">>),
    Some(<<"w", "a", ".", "m", "e", "/", "7", "9", "9", "9", "1", "2", "3", "4", "5", "6", "7">>),
    Some(<<"1", "2", "3", "4", "5", "6", "7", "8", "9", "0", "1", "2", "3", "4", "5", "6">>),
    Some(<<" ", "+", "7", "9", "9", "9", "1", "2", "3", "4", "5", "6", "7", " ">>),
    Some(<<"h", "t", "t", "p", ":", "/", "/", "w", "a", ".", "m", "e", "/", "7", "9", "9", "9", "1", "2", "3", "4", "5", "6", "7">>) }
\* the values tried for vk: user names, links of each scheme and host, other text
VkInputs ==
  { None,
    Some(<<>>),
    Some(<<"s", "a", "l", "o", "n">>),
    Some(<<"h", "t", "t", "p", "s", ":", "/", "/", "v", "k", ".", "c", "o", "m", "/", "s", "a", "l", "o", "n">>),
    Some(<<"h", "t", "t", "p", ":", "/", "/", "v", "k", ".", "c", "o", "m", "/", "s", "a", "l", "o", "n">>),
    Some(<<"v", "k", ".", "c", "o", "m", "/", "s", "a", "l", "o", "n">>),
    Some(<<"h", "t", "t", "p", "s", ":", "/", "/", "m", ".", "v", "k", ".", "c", "o", "m", "/", "s", "a", "l", "o", "n">>),
    Some(<<"i", "d", ".", "1", "2", "3">>),
    Some(<<"m", ".", "v", "k", ".", "c", "o", "m", "/", "s", "a", "l", "o", "n">>),
    Some(<<" ", "s", "a", "l", "o", "n", " ">>),
    Some(<<"h", "t", "t", "p", "s", ":", "/", "/", "e", "x", "a", "m", "p", "l", "e", ".", "c", "o", "m", "/", "x">>) }
\* one field set at a time, and all three together
SocialNetworksInputs ==
  {[telegram |-> telegram, whatsapp |-> None, vk |-> None] : telegram \in TelegramInputs}
  \cup {[telegram |-> None, whatsapp |-> whatsapp, vk |-> None] : whatsapp \in WhatsappInputs}
  \cup {[telegram |-> None, whatsapp |-> None, vk |-> vk] : vk \in VkInputs}
  \cup {[telegram |-> Some(<<"@", "s", "a", "l", "o", "n">>), whatsapp |-> Some(<<"+", "7", "9", "9", "9", "1", "2", "3", "4", "5", "6", "7">>), vk |-> Some(<<"s", "a", "l", "o", "n">>)]}

\* the longest list of urls tried
MaxUrls == 3
\* "https://yandex.ru/maps/org/1", "https://yandex.ru/maps/org/2", and urls
\* _validate_url refuses: "https://salon.ru/maps/org/1", "yandex.ru/maps/org/1",
\* "https://yandex.ru/profile/1?from=/maps/"
BatchUrls ==
  { <<"h", "t", "t", "p", "s", ":", "/", "/", "y", "a", "n", "d", "e", "x", ".", "r", "u", "/", "m", "a", "p", "s", "/", "o", "r", "g", "/", "1">>,
    <<"h", "t", "t", "p", "s", ":", "/", "/", "y", "a", "n", "d", "e", "x", ".", "r", "u", "/", "m", "a", "p", "s", "/", "o", "r", "g", "/", "2">>,
    <<"h", "t", "t", "p", "s", ":", "/", "/", "s", "a", "l", "o", "n", ".", "r", "u", "/", "m", "a", "p", "s", "/", "o", "r", "g", "/", "1">>,
    <<"y", "a", "n", "d", "e", "x", ".", "r", "u", "/", "m", "a", "p", "s", "/", "o", "r", "g", "/", "1">>,
    <<"h", "t", "t", "p", "s", ":", "/", "/", "y", "a", "n", "d", "e", "x", ".", "r", "u", "/", "p", "r", "o", "f", "i", "l", "e", "/", "1", "?", "f", "r", "o", "m", "=", "/", "m", "a", "p", "s", "/">> }
\* the lists of urls tried: every list of up to MaxUrls urls, without repetition
UrlLists ==
  UNION {{urls \in [1..n -> BatchUrls] : \A i, j \in 1..n : urls[i] = urls[j] => i = j} :
         n \in 0..MaxUrls}
\* delay_between: the default, no delay, a negative delay
DelayInputs == {None, Some(0), Some(-1)}
\* output_dir: not given, a directory
OutputDirInputs == {None, Some(<<"o", "u", "t">>)}
\* what the environment decides for one url
Environments == [mkdir_fails : BOOLEAN, scraped : BOOLEAN]

\* the largest review rating tried
MaxReviewRating == 7
ReviewRatingInputs == {None} \cup {Some(v) : v \in (0 - 2)..MaxReviewRating}
AuthorInputs == {<<>>, <<" ">>, <<"a">>, <<"RU_A", "ru_n", "ru_n", "ru_a">>}

\* "Маникюр с покрытием 2800 ₽, 60 минут"
ManicureText ==
  <<"RU_M", "ru_a", "ru_n", "ru_i", "ru_k", "ru_yu", "ru_r", " ", "ru_s", " ", "ru_p",
    "ru_o", "ru_k", "ru_r", "ru_y", "ru_t", "ru_i", "ru_e", "ru_m", " ", "2", "8", "0",
    "0", " ", "RUB", ",", " ", "6", "0", " ", "ru_m", "ru_i", "ru_n", "ru_u", "ru_t">>
\* "Стрижка 1500 руб; Маникюр 2000 руб"
TwoServicesText ==
  <<"RU_S", "ru_t", "ru_r", "ru_i", "ru_zh", "ru_k", "ru_a", " ", "1", "5", "0", "0", " ",
    "ru_r", "ru_u", "ru_b", ";", " ", "RU_M", "ru_a", "ru_n", "ru_i", "ru_k", "ru_yu",
    "ru_r", " ", "2", "0", "0", "0", " ", "ru_r", "ru_u", "ru_b">>
\* "Стрижка 1500 руб", "Маникюр 2000 руб", "Укладка 900 руб"
ServiceItems ==
  << <<"RU_S", "ru_t", "ru_r", "ru_i", "ru_zh", "ru_k", "ru_a", " ", "1", "5", "0", "0", " ", "ru_r", "ru_u", "ru_b">>,
     <<"RU_M", "ru_a", "ru_n", "ru_i", "ru_k", "ru_yu", "ru_r", " ", "2", "0", "0", "0", " ", "ru_r", "ru_u", "ru_b">>,
     <<"RU_U", "ru_k", "ru_l", "ru_a", "ru_d", "ru_k", "ru_a", " ", "9", "0", "0", " ", "ru_r", "ru_u", "ru_b">> >>
\* what stands between the services of a block: a bulleted list ("\n- ", "\n* "),
\* a numbered list ("\n2. ", "\n2) "), a blank line, a semicolon, a pipe
BlockSeparators ==
  {<<"\n", "-", " ">>, <<"\n", "*", " ">>, <<"\n", "2", ".", " ">>, <<"\n", "2", ")", " ">>,
   <<"\n", "\n">>, <<";", " ">>, <<" ", "|", " ">>}
\* the blocks of two and of three services, each with the services it lists
ServiceBlocks ==
  {[text |-> Join(sep, SubSeq(ServiceItems, 1, n)), segments |-> SubSeq(ServiceItems, 1, n)] :
     sep \in BlockSeparators, n \in 2..Len(ServiceItems)}
\* "Стрижка 1500 руб; Лак": no separator gives more than one segment of more than 5 characters
OneServiceBlock == <<"RU_S", "ru_t", "ru_r", "ru_i", "ru_zh", "ru_k", "ru_a", " ", "1", "5", "0", "0", " ", "ru_r", "ru_u", "ru_b", ";", " ", "RU_L", "ru_a", "ru_k">>
\* the values passed to ServiceParser.parse
ServiceInputs ==
  {NoneArg, NotStr, Str(<<>>), Str(<<" ", " ">>), Str(<<"a", "b">>),
   Str(ManicureText), Str(TwoServicesText), Str(OneServiceBlock)}
  \cup {Str(block.text) : block \in ServiceBlocks}

\* the numbers of the price ranges tried: below, on and above the bounds 50 and 500000 of
\* a reasonable price
PriceNumbers == {10, 49, 50, 2800, 500000, 500001}
\* "руб" and "₽"
Currencies == {W_rub, <<"RUB">>}
\* "a-b <currency>"
RangeText(a, b, currency) == ToStr(a) \o <<"-">> \o ToStr(b) \o <<" ">> \o currency
\* "n <currency>", "от n <currency>", "до n <currency>"
PriceText(n, currency) == ToStr(n) \o <<" ">> \o currency
PriceFromText(n, currency) == W_ot \o <<" ">> \o PriceText(n, currency)
PriceToText(n, currency) == W_do \o <<" ">> \o PriceText(n, currency)
\* the texts passed to ServiceParser.parse_price: "", "10 руб", "2800 ₽", "от 500 руб",
\* "до 1000 руб", "бесплатно" and the ranges
PriceInputs ==
  {<<>>,
   <<"1", "0", " ", "ru_r", "ru_u", "ru_b">>,
   <<"2", "8", "0", "0", " ", "RUB">>,
   <<"ru_o", "ru_t", " ", "5", "0", "0", " ", "ru_r", "ru_u", "ru_b">>,
   <<"ru_d", "ru_o", " ", "1", "0", "0", "0", " ", "ru_r", "ru_u", "ru_b">>,
   <<"ru_b", "ru_e", "ru_s", "ru_p", "ru_l", "ru_a", "ru_t", "ru_n", "ru_o">>}
  \cup {RangeText(a, b, c) : a \in PriceNumbers, b \in PriceNumbers, c \in Currencies}
  \cup {PriceText(n, c) : n \in PriceNumbers, c \in Currencies}
  \cup {PriceFromText(n, c) : n \in PriceNumbers, c \in Currencies}
  \cup {PriceToText(n, c) : n \in PriceNumbers, c \in Currencies}

\* "Пн-Пт: 09:00-18:00, Сб: 10:00-16:00, Вс: выходной"
CompactScheduleText ==
  <<"RU_P", "ru_n", "-", "RU_P", "ru_t", ":", " ", "0", "9", ":", "0", "0", "-", "1", "8",
    ":", "0", "0", ",", " ", "RU_S", "ru_b", ":", " ", "1", "0", ":", "0", "0", "-", "1",
    "6", ":", "0", "0", ",", " ", "RU_V", "ru_s", ":", " ", "ru_v", "ru_y", "ru_h", "ru_o",
    "ru_d", "ru_n", "ru_o", "ru_j">>
\* "по записи", "25:00-26:00": hours texts without a keyword and without a valid time range
UnparseableHours ==
  { <<"ru_p", "ru_o", " ", "ru_z", "ru_a", "ru_p", "ru_i", "ru_s", "ru_i">>,
    <<"2", "5", ":", "0", "0", "-", "2", "6", ":", "0", "0">> }
\* "Понедельник: " before the hours of the day
MondayLine(hours) == <<"RU_P", "ru_o", "ru_n", "ru_e", "ru_d", "ru_e", "ru_l", "ru_soft", "ru_n", "ru_i", "ru_k", ":", " ">> \o hours
\* the values passed to ScheduleParser.parse: with the compact schedule "Открыто",
\* "Пн-Пт: 09:00-18:00", "Круглосуточно" and "abc"
ScheduleInputs ==
  {NoneArg, NotStr, Str(<<>>), Str(CompactScheduleText),
   Str(<<"RU_O", "ru_t", "ru_k", "ru_r", "ru_y", "ru_t", "ru_o">>),
   Str(<<"RU_P", "ru_n", "-", "RU_P", "ru_t", ":", " ", "0", "9", ":", "0", "0", "-", "1", "8",
    ":", "0", "0">>),
   Str(<<"RU_K", "ru_r", "ru_u", "ru_g", "ru_l", "ru_o", "ru_s", "ru_u", "ru_t", "ru_o", "ru_ch",
    "ru_n", "ru_o">>),
   Str(<<"a", "b", "c">>)}
  \cup {Str(MondayLine(hours)) : hours \in UnparseableHours}

\* "+7 (495) 123-45-67"
PhoneText == <<"+", "7", " ", "(", "4", "9", "5", ")", " ", "1", "2", "3", "-", "4", "5", "-", "6", "7">>
\* "salon.ru"
SiteText == <<"s", "a", "l", "o", "n", ".", "r", "u">>
\* "info@salon.ru"
MailText == <<"i", "n", "f", "o", "@", "s", "a", "l", "o", "n", ".", "r", "u">>
\* "vk.com/salon"
VkText == <<"v", "k", ".", "c", "o", "m", "/", "s", "a", "l", "o", "n">>
\* "Тел: 8 495 123-45-67, vk.com/salon"
ContactsText ==
  <<"RU_T", "ru_e", "ru_l", ":", " ", "8", " ", "4", "9", "5", " ", "1", "2", "3", "-", "4",
    "5", "-", "6", "7", ",", " ", "v", "k", ".", "c", "o", "m", "/", "s", "a", "l", "o", "n">>
\* the values passed to ContactParser.parse
ContactInputs ==
  {NoneArg, NotStr, Dict(<<>>),
   Dict("phone" :> Str(PhoneText)),
   Dict("phone" :> Str(<<"a", "b", "c">>)),
   Dict("phone" :> NotStr),
   Dict("website" :> Str(SiteText)),
   Dict("website" :> NotStr),
   Dict("email" :> Str(MailText)),
   Dict("text" :> Str(ContactsText)),
   Dict("text" :> Str(<<"a", "b", "c">>)),
   Dict(("phone" :> Str(PhoneText)) @@ ("website" :> Str(SiteText))
        @@ ("email" :> Str(MailText)) @@ ("vk" :> Str(VkText)))}

\* the prefixes of a Russian number
PhonePrefixes == {<<"8">>, <<"7">>, <<"+", "7">>}
\* what stands between two groups of a number
GroupSeparators == {<<>>, <<" ">>, <<"-">>}
\* what stands before and after the area code
AreaCodeBrackets == {<< <<>>, <<>> >>, << <<"(">>, <<")">> >>}
\* ten digits in groups of 3, 3, 2 and 2: 999 123 45 67 and 800 787 87 78
PhoneGroups ==
  {<< <<"9", "9", "9">>, <<"1", "2", "3">>, <<"4", "5">>, <<"6", "7">> >>,
   << <<"8", "0", "0">>, <<"7", "8", "7">>, <<"8", "7">>, <<"7", "8">> >>}
\* prefix, area code and three more groups, seps[j] in front of group j
RussianPhoneText(prefix, brackets, groups, seps) ==
  prefix \o seps[1] \o brackets[1] \o groups[1] \o brackets[2] \o seps[2] \o groups[2]
    \o seps[3] \o groups[3] \o seps[4] \o groups[4]
RussianPhoneTexts ==
  {RussianPhoneText(prefix, brackets, groups, seps) :
     prefix \in PhonePrefixes, brackets \in AreaCodeBrackets, groups \in PhoneGroups,
     seps \in [1..4 -> GroupSeparators]}
\* "+1234", "12", "123456", "+7 12 3", "abc", "+12 3 4 5", "1234 56", "123 45 67"
ShortPhoneTexts ==
  {<<"+", "1", "2", "3", "4">>, <<"1", "2">>, <<"1", "2", "3", "4", "5", "6">>,
   <<"+", "7", " ", "1", "2", " ", "3">>, <<"a", "b", "c">>,
   <<"+", "1", "2", " ", "3", " ", "4", " ", "5">>, <<"1", "2", "3", "4", " ", "5", "6">>,
   <<"1", "2", "3", " ", "4", "5", " ", "6", "7">>}
\* numbers written without a prefix, without separators or with brackets
\* around any group
\* "9991234567", "89991234567", "79991234567", "999 123 45 67", "7-999-123-45-67", "8-9991-23-45-67",
\* "(999)123-45-67", "8(999)123(45)67", "7(999)(123)4567", "(999)123-45-6", "(999)123-45-678", "(999)(123)(45)(67)"
UnformattedPhoneTexts ==
  { <<"9", "9", "9", "1", "2", "3", "4", "5", "6", "7">>,
    <<"8", "9", "9", "9", "1", "2", "3", "4", "5", "6", "7">>,
    <<"7", "9", "9", "9", "1", "2", "3", "4", "5", "6", "7">>,
    <<"9", "9", "9", " ", "1", "2", "3", " ", "4", "5", " ", "6", "7">>,
    <<"7", "-", "9", "9", "9", "-", "1", "2", "3", "-", "4", "5", "-", "6", "7">>,
    <<"8", "-", "9", "9", "9", "1", "-", "2", "3", "-", "4", "5", "-", "6", "7">>,
    <<"(", "9", "9", "9", ")", "1", "2", "3", "-", "4", "5", "-", "6", "7">>,
    <<"8", "(", "9", "9", "9", ")", "1", "2", "3", "(", "4", "5", ")", "6", "7">>,
    <<"7", "(", "9", "9", "9", ")", "(", "1", "2", "3", ")", "4", "5", "6", "7">>,
    <<"(", "9", "9", "9", ")", "1", "2", "3", "-", "4", "5", "-", "6">>,
    <<"(", "9", "9", "9", ")", "1", "2", "3", "-", "4", "5", "-", "6", "7", "8">>,
    <<"(", "9", "9", "9", ")", "(", "1", "2", "3", ")", "(", "4", "5", ")", "(", "6", "7", ")">> }
\* the values passed to ContactParser.parse_phone
PhoneInputs ==
  RussianPhoneTexts \cup ShortPhoneTexts \cup UnformattedPhoneTexts \cup {<<>>}

\* "Анна К.\nОценка: 4\n2 дня назад\nХороший мастер, приду ещё раз\nПолезно 2"
FullReviewText ==
  <<"RU_A", "ru_n", "ru_n", "ru_a", " ", "RU_K", ".", "\n", "RU_O", "ru_c", "ru_e", "ru_n",
    "ru_k", "ru_a", ":", " ", "4", "\n", "2", " ", "ru_d", "ru_n", "ru_ya", " ", "ru_n",
    "ru_a", "ru_z", "ru_a", "ru_d", "\n", "RU_H", "ru_o", "ru_r", "ru_o", "ru_sh", "ru_i",
    "ru_j", " ", "ru_m", "ru_a", "ru_s", "ru_t", "ru_e", "ru_r", ",", " ", "ru_p", "ru_r",
    "ru_i", "ru_d", "ru_u", " ", "ru_e", "ru_sch", "ru_yo", " ", "ru_r", "ru_a", "ru_z",
    "\n", "RU_P", "ru_o", "ru_l", "ru_e", "ru_z", "ru_n", "ru_o", " ", "2">>
\* "Анна\n5 из 5\nОтличный салон, всем советую"
PlainReviewText ==
  <<"RU_A", "ru_n", "ru_n", "ru_a", "\n", "5", " ", "ru_i", "ru_z", " ", "5", "\n", "RU_O",
    "ru_t", "ru_l", "ru_i", "ru_ch", "ru_n", "ru_y", "ru_j", " ", "ru_s", "ru_a", "ru_l",
    "ru_o", "ru_n", ",", " ", "ru_v", "ru_s", "ru_e", "ru_m", " ", "ru_s", "ru_o", "ru_v",
    "ru_e", "ru_t", "ru_u", "ru_yu">>
\* "Анна К.\n5 из 5\nОтличный салон, всем советую\n\n\n\n2 из 5\nочень плохо, больше не приду сюда"
TwoReviewsText ==
  <<"RU_A", "ru_n", "ru_n", "ru_a", " ", "RU_K", ".", "\n", "5", " ", "ru_i", "ru_z", " ",
    "5", "\n", "RU_O", "ru_t", "ru_l", "ru_i", "ru_ch", "ru_n", "ru_y", "ru_j", " ",
    "ru_s", "ru_a", "ru_l", "ru_o", "ru_n", ",", " ", "ru_v", "ru_s", "ru_e", "ru_m", " ",
    "ru_s", "ru_o", "ru_v", "ru_e", "ru_t", "ru_u", "ru_yu", "\n", "\n", "\n", "\n", "2",
    " ", "ru_i", "ru_z", " ", "5", "\n", "ru_o", "ru_ch", "ru_e", "ru_n", "ru_soft", " ",
    "ru_p", "ru_l", "ru_o", "ru_h", "ru_o", ",", " ", "ru_b", "ru_o", "ru_l", "ru_soft",
    "ru_sh", "ru_e", " ", "ru_n", "ru_e", " ", "ru_p", "ru_r", "ru_i", "ru_d", "ru_u", " ",
    "ru_s", "ru_yu", "ru_d", "ru_a">>
\* "Анна К.\n5 из 5\nОтличный салон, всем советую\n\n\n\nОчень плохо, больше не приду сюда"
CapitalReviewsText ==
  <<"RU_A", "ru_n", "ru_n", "ru_a", " ", "RU_K", ".", "\n", "5", " ", "ru_i", "ru_z", " ",
    "5", "\n", "RU_O", "ru_t", "ru_l", "ru_i", "ru_ch", "ru_n", "ru_y", "ru_j", " ",
    "ru_s", "ru_a", "ru_l", "ru_o", "ru_n", ",", " ", "ru_v", "ru_s", "ru_e", "ru_m", " ",
    "ru_s", "ru_o", "ru_v", "ru_e", "ru_t", "ru_u", "ru_yu", "\n", "\n", "\n", "\n",
    "RU_O", "ru_ch", "ru_e", "ru_n", "ru_soft", " ", "ru_p", "ru_l", "ru_o", "ru_h",
    "ru_o", ",", " ", "ru_b", "ru_o", "ru_l", "ru_soft", "ru_sh", "ru_e", " ", "ru_n",
    "ru_e", " ", "ru_p", "ru_r", "ru_i", "ru_d", "ru_u", " ", "ru_s", "ru_yu", "ru_d",
    "ru_a">>
\* the values passed to ReviewParser.parse
ReviewInputs ==
  {NoneArg, NotStr, Str(<<>>), Str(<<"o", "k">>), Str(FullReviewText), Str(PlainReviewText),
   Str(TwoReviewsText), Str(CapitalReviewsText)}
\* the days on which datetime.now() is read
Days == {[year |-> 2024, month |-> 3, day |-> 1], [year |-> 2025, month |-> 1, day |-> 1]}

\* the date texts tried, one or more of each kind of DATE_PATTERNS:
\* "15 марта 2024", "15 Mar 2024", "5 мая", "15 Mar", "15.03.2024", "5.3.24", "1.12.99", "03/15/2024", "2024-03-15", "2024-3-5",
\* "сегодня", "вчера", "позавчера", "today", "Yesterday", "3 дня назад", "2 недели назад", "1 месяц назад", "400 дней назад", "abc", ""
DateInputs ==
  { <<"1", "5", " ", "ru_m", "ru_a", "ru_r", "ru_t", "ru_a", " ", "2", "0", "2", "4">>,
    <<"1", "5", " ", "M", "a", "r", " ", "2", "0", "2", "4">>,
    <<"5", " ", "ru_m", "ru_a", "ru_ya">>,
    <<"1", "5", " ", "M", "a", "r">>,
    <<"1", "5", ".", "0", "3", ".", "2", "0", "2", "4">>,
    <<"5", ".", "3", ".", "2", "4">>,
    <<"1", ".", "1", "2", ".", "9", "9">>,
    <<"0", "3", "/", "1", "5", "/", "2", "0", "2", "4">>,
    <<"2", "0", "2", "4", "-", "0", "3", "-", "1", "5">>,
    <<"2", "0", "2", "4", "-", "3", "-", "5">>,
    <<"ru_s", "ru_e", "ru_g", "ru_o", "ru_d", "ru_n", "ru_ya">>,
    <<"ru_v", "ru_ch", "ru_e", "ru_r", "ru_a">>,
    <<"ru_p", "ru_o", "ru_z", "ru_a", "ru_v", "ru_ch", "ru_e", "ru_r", "ru_a">>,
    <<"t", "o", "d", "a", "y">>,
    <<"Y", "e", "s", "t", "e", "r", "d", "a", "y">>,
    <<"3", " ", "ru_d", "ru_n", "ru_ya", " ", "ru_n", "ru_a", "ru_z", "ru_a", "ru_d">>,
    <<"2", " ", "ru_n", "ru_e", "ru_d", "ru_e", "ru_l", "ru_i", " ", "ru_n", "ru_a", "ru_z", "ru_a", "ru_d">>,
    <<"1", " ", "ru_m", "ru_e", "ru_s", "ru_ya", "ru_c", " ", "ru_n", "ru_a", "ru_z", "ru_a", "ru_d">>,
    <<"4", "0", "0", " ", "ru_d", "ru_n", "ru_e", "ru_j", " ", "ru_n", "ru_a", "ru_z", "ru_a", "ru_d">>,
    <<"a", "b", "c">>,
    <<>> }

\* the texts cleaned: runs of spaces, runs of newlines, both, a tag, and
\* text that is only stripped
\* "A  B", "A   B  C", "A\n\n\nB", "A\n\n\n\nB", "A\n\n\nB  C", "A\n\nB",
\* "A\nB", "A \n \n B", "<b>A</b>\n\n\nB", "  A  ", "\n\n\nA", ""
CleanTextInputs ==
  { <<"A", " ", " ", "B">>,
    <<"A", " ", " ", " ", "B", " ", " ", "C">>,
    <<"A", "\n", "\n", "\n", "B">>,
    <<"A", "\n", "\n", "\n", "\n", "B">>,
    <<"A", "\n", "\n", "\n", "B", " ", " ", "C">>,
    <<"A", "\n", "\n", "B">>,
    <<"A", "\n", "B">>,
    <<"A", " ", "\n", " ", "\n", " ", "B">>,
    <<"<", "b", ">", "A", "<", "/", "b", ">", "\n", "\n", "\n", "B">>,
    <<" ", " ", "A", " ", " ">>,
    <<"\n", "\n", "\n", "A">>,
    <<>> }

\* the most messages a caller adds to one result
MaxNotes == 2

\* the calls that return a ParseResult
ParserOps == {"ServiceParser.parse", "ServiceParser.parse_price", "ScheduleParser.parse",
              "ContactParser.parse", "ReviewParser.parse"}
NoteOps == {"ParseResult.add_warning", "ParseResult.add_error"}

Init ==
  /\ op = "idle"
  /\ arg = None
  /\ res = None

\* Enterprise(**data)
ConstructEnterprise ==
  \E data \in EnterpriseInputs :
    /\ op = "idle"
    /\ op' = "Enterprise"
    /\ arg' = data
    /\ res' = Enterprise(data)

\* Review(**data)
ConstructReview ==
  \E a \in AuthorInputs, r \in ReviewRatingInputs :
    /\ op = "idle"
    /\ op' = "Review"
    /\ arg' = [author |-> a, rating |-> r]
    /\ res' = Review([author |-> a, rating |-> r])

\* ServiceParser().parse(raw_data)
ServiceParse ==
  /\ op = "idle"
  /\ \E raw_data \in ServiceInputs :
       /\ op' = "ServiceParser.parse"
       /\ arg' = [raw_data |-> raw_data]
       /\ res' = ServiceParser_parse(raw_data)

\* ServiceParser().parse_price(price_text)
ParsePrice ==
  /\ op = "idle"
  /\ \E price_text \in PriceInputs :
       /\ op' = "ServiceParser.parse_price"
       /\ arg' = [price_text |-> price_text]
       /\ res' = Returned(parse_price(price_text))

\* ScheduleParser().parse(raw_data)
ScheduleParse ==
  /\ op = "idle"
  /\ \E raw_data \in ScheduleInputs :
       /\ op' = "ScheduleParser.parse"
       /\ arg' = [raw_data |-> raw_data]
       /\ res' = ScheduleParser_parse(raw_data)

\* ContactParser().parse(raw_data)
ContactParse ==
  /\ op = "idle"
  /\ \E raw_data \in ContactInputs :
       /\ op' = "ContactParser.parse"
       /\ arg' = [raw_data |-> raw_data]
       /\ res' = ContactParser_parse(raw_data)

\* ContactParser().parse_phone(phone_text)
ParsePhone ==
  /\ op = "idle"
  /\ \E phone_text \in PhoneInputs :
       /\ op' = "ContactParser.parse_phone"
       /\ arg' = [phone_text |-> phone_text]
       /\ res' = Returned(parse_phone(phone_text))

\* ContactParser().parse_website(website_text)
ParseWebsite ==
  /\ op = "idle"
  /\ \E website_text \in WebsiteInputs :
       /\ op' = "ContactParser.parse_website"
       /\ arg' = [website_text |-> website_text]
       /\ res' = Returned(parse_website(website_text))

\* ReviewParser().parse(raw_data), on the day now
ReviewParse ==
  /\ op = "idle"
  /\ \E raw_data \in ReviewInputs, now \in Days :
       /\ op' = "ReviewParser.parse"
       /\ arg' = [raw_data |-> raw_data, now |-> now]
       /\ res' = ReviewParser_parse(raw_data, now)

\* WorkingHours(schedule=...)
ConstructWorkingHours ==
  /\ op = "idle"
  /\ \E schedule \in WorkingHoursInputs :
       /\ op' = "WorkingHours"
       /\ arg' = [schedule |-> schedule]
       /\ res' = WorkingHours([schedule |-> schedule])

\* WorkingHours._normalize_weekday(day)
NormalizeWeekday ==
  /\ op = "idle"
  /\ \E day \in DayNameInputs :
       /\ op' = "WorkingHours._normalize_weekday"
       /\ arg' = [day |-> day]
       /\ res' = Returned(normalize_weekday(day))

\* ScheduleParser()._normalize_day_name(day_name)
NormalizeDayName ==
  /\ op = "idle"
  /\ \E day_name \in DayNameInputs :
       /\ op' = "ScheduleParser._normalize_day_name"
       /\ arg' = [day_name |-> day_name]
       /\ res' = Returned(normalize_day_name(day_name))

\* WorkingHours._normalize_working_hours(hours)
NormalizeWorkingHours ==
  /\ op = "idle"
  /\ \E hours \in HoursInputs :
       /\ op' = "WorkingHours._normalize_working_hours"
       /\ arg' = [hours |-> hours]
       /\ res' = Returned(normalize_working_hours(hours))

\* ScheduleParser()._extract_working_hours(time_text)
ExtractWorkingHours ==
  /\ op = "idle"
  /\ \E time_text \in HoursInputs :
       /\ op' = "ScheduleParser._extract_working_hours"
       /\ arg' = [time_text |-> time_text]
       /\ res' = Returned(extract_working_hours(time_text))

\* Service(**data)
ConstructService ==
  /\ op = "idle"
  /\ \E data \in ServiceModelInputs :
       /\ op' = "Service"
       /\ arg' = data
       /\ res' = Service(data)

\* a client constructs SocialNetworks(telegram=..., whatsapp=..., vk=...)
ConstructSocialNetworks ==
  /\ op = "idle"
  /\ \E data \in SocialNetworksInputs :
       /\ op' = "SocialNetworks"
       /\ arg' = data
       /\ res' = SocialNetworks(data)

\* a client calls extract_batch(urls, output_dir=..., delay_between=...,
\* continue_on_error=...): the result is made and the loop begins
ExtractBatch ==
  /\ op = "idle"
  /\ \E urls \in UrlLists, output_dir \in OutputDirInputs, delay_between \in DelayInputs,
        continue_on_error \in BOOLEAN :
       /\ op' = "extract_batch"
       /\ arg' = [urls |-> urls, output_dir |-> output_dir, delay_between |-> delay_between,
                  continue_on_error |-> continue_on_error]
       /\ res' = ExtractionResult(urls)

\* extract_batch handles the next url of its list
BatchIteration ==
  /\ op = "extract_batch"
  /\ res.pc = "loop"
  /\ \E env \in Environments :
       res' = batch_iteration(res, arg.urls,
                              extract_single(arg.urls[res.i], arg.output_dir, env),
                              arg.continue_on_error, arg.delay_between)
  /\ UNCHANGED <<op, arg>>

\* the caller asks the Review it has constructed whether it is positive
IsPositive ==
  /\ op = "Review"
  /\ res.ok
  /\ op' = "Review.is_positive"
  /\ arg' = res
  /\ res' = Returned(is_positive(res))

\* the caller asks the Review it has constructed whether it is negative
IsNegative ==
  /\ op = "Review"
  /\ res.ok
  /\ op' = "Review.is_negative"
  /\ arg' = res
  /\ res' = Returned(is_negative(res))

\* a client calls ReviewParser.parse_date(date_text) on the day clock
ParseDate ==
  /\ op = "idle"
  /\ \E date_text \in DateInputs, clock \in Days :
       /\ op' = "ReviewParser.parse_date"
       /\ arg' = [date_text |-> date_text, clock |-> clock]
       /\ res' = Returned(parse_date(date_text, clock))

\* a client calls BaseParser.clean_text(text, remove_html,
\* normalize_whitespace), remove_special_chars left at its default
CleanText ==
  /\ op = "idle"
  /\ \E text \in CleanTextInputs, remove_html \in BOOLEAN, normalize_whitespace \in BOOLEAN :
       /\ op' = "BaseParser.clean_text"
       /\ arg' = [text |-> text, remove_html |-> remove_html,
                  normalize_whitespace |-> normalize_whitespace]
       /\ res' = Returned(clean_text_flags(text, remove_html, normalize_whitespace))

\* the caller holds a ParseResult and has added fewer than MaxNotes messages to it
HoldsResult ==
  /\ op \in ParserOps \cup NoteOps
  /\ ~res.raised
  /\ Len(res.v.warnings) + Len(res.v.errors) < MaxNotes

\* result.add_warning(warning); arg stays the argument of the call that made the result
AddWarning ==
  /\ HoldsResult
  /\ op' = "ParseResult.add_warning"
  /\ res' = Returned(add_warning(res.v, "warning"))
  /\ UNCHANGED arg

\* result.add_error(error)
AddError ==
  /\ HoldsResult
  /\ op' = "ParseResult.add_error"
  /\ res' = Returned(add_error(res.v, <<"error">>))
  /\ UNCHANGED arg

\* the caller drops the result; the next call starts from scratch
Return ==
  /\ op # "idle"
  /\ op = "extract_batch" => res.pc # "loop"
  /\ op' = "idle"
  /\ arg' = None
  /\ res' = None

Next ==
  \/ ConstructEnterprise
  \/ ConstructReview
  \/ IsPositive
  \/ IsNegative
  \/ ServiceParse
  \/ ParsePrice
  \/ ScheduleParse
  \/ ContactParse
  \/ ParsePhone
  \/ ParseWebsite
  \/ ReviewParse
  \/ ParseDate
  \/ CleanText
  \/ ConstructWorkingHours
  \/ NormalizeWeekday
  \/ NormalizeDayName
  \/ NormalizeWorkingHours
  \/ ExtractWorkingHours
  \/ ConstructService
  \/ ConstructSocialNetworks
  \/ ExtractBatch
  \/ BatchIteration
  \/ AddWarning
  \/ AddError
  \/ Return

Spec == Init /\ [][Next]_vars

----------------------------------------------------------------------------
(* Properties of the domain models.                                        *)

\* C1: constructing an Enterprise whose name is empty or only whitespace
\* fails with a validation error on the name; no Enterprise is produced.
C1_BlankNameRejected ==
  (op = "Enterprise" /\ Len(Strip(arg.name)) = 0) =>
     (~res.ok /\ res.field = "name")
\* a whitespace-only name reached validate_name and was refused there
C1_Witness ==
  op = "Enterprise" /\ arg.name = <<" ", " ">> /\ ~res.ok /\ res.error = "value_error"

\* C2: every Enterprise that is constructed stores a non-empty name.
C2_StoredNameNonEmpty ==
  (op = "Enterprise" /\ res.ok) => Len(res.name) > 0

\* C3: an Enterprise rating of exactly 0.0 or 5.0 is retained, and a rating
\* outside [0, 5] yields an Enterprise whose rating is null: not clamped and
\* not a validation failure.
C3_RatingOutOfRangeNulled ==
  (op = "Enterprise" /\ arg.name = <<"a">> /\ ~IsNone(arg.rating)) =>
     /\ res.ok
     /\ Val(arg.rating) \in {0, 500} => res.rating = arg.rating
     /\ (Val(arg.rating) < 0 \/ Val(arg.rating) > 500) => res.rating = None

\* C4: a Review with rating r is constructed when r is null or 1 <= r <= 5
\* and is refused when r < 1 or r > 5; a constructed Review holds r itself.
C4_ReviewRatingRange ==
  (op = "Review" /\ Len(Strip(arg.author)) > 0) =>
     /\ res.ok <=> (IsNone(arg.rating) \/ Val(arg.rating) \in 1..5)
     /\ res.ok => res.rating = arg.rating
\* a rating above 5 was refused
C4_Witness ==
  op = "Review" /\ arg.rating = Some(6) /\ Len(Strip(arg.author)) > 0 /\ ~res.ok

----------------------------------------------------------------------------
(* Properties of the parsers.                                              *)

\* the body of the try block of the parse call the state holds raised
TryRaised ==
  \/ op = "ServiceParser.parse" /\ ~Falsy(arg.raw_data) /\ ServiceParser_try(arg.raw_data).raised
  \/ op = "ScheduleParser.parse" /\ ~Falsy(arg.raw_data) /\ ScheduleParser_try(arg.raw_data).raised
  \/ op = "ContactParser.parse" /\ ~Falsy(arg.raw_data) /\ ContactParser_try(arg.raw_data).raised
  \/ op = "ReviewParser.parse" /\ ~Falsy(arg.raw_data)
       /\ ReviewParser_try(arg.raw_data, arg.now).raised

\* C5: no parse call (services, schedule, contacts, reviews) raises to its
\* caller, and an exception raised inside parsing is reported as a result
\* with success=false, confidence 0.0 and a non-empty errors list.
C5_ParseNeverRaises ==
  /\ op \in ParserOps => ~res.raised
  /\ TryRaised => (~res.v.success /\ res.v.confidence = 0 /\ Len(res.v.errors) > 0)
\* the TypeError of price_info["success"] inside ServiceParser.parse was
\* caught and reported
C5_Witness ==
  /\ op = "ServiceParser.parse"
  /\ arg.raw_data = Str(ManicureText)
  /\ TryRaised
  /\ ~res.raised
  /\ res.v.errors = <<<<"service parsing error", "TypeError">>>>

\* a value that holds nothing: None, "", {} or []
Blank(x) == DOMAIN x = {}
\* data that is empty or has only blank fields
NoData(data) == \A key \in DOMAIN data : Blank(data[key])

\* C6: a parser-level call that finds no match returns success=false with
\* empty data and confidence exactly 0.0: no result of a parser-level call
\* has success=false together with a non-zero confidence or non-empty data.
C6_MissIsEmptyAndZero ==
  (op \in ParserOps /\ ~res.raised /\ ~res.v.success) =>
     (res.v.confidence = 0 /\ NoData(res.v.data))

\* C7: the result of each parser-level call carries a confidence within
\* [0, 1], also after add_warning or add_error has been applied to it.
C7_ConfidenceInUnitInterval ==
  (op \in ParserOps \cup NoteOps /\ ~res.raised) =>
     (0 <= res.v.confidence /\ res.v.confidence <= One)
\* a review with all six features, whose weights add up to 1.1, was parsed
\* and a warning was added to its result
C7_Witness ==
  /\ op = "ParseResult.add_warning"
  /\ "now" \in DOMAIN arg
  /\ arg.raw_data = Str(FullReviewText)
  /\ res.v.success
  /\ res.v.confidence = Tenths(7)
  /\ ReviewParser_parse(arg.raw_data, arg.now).v.confidence = One

\* C8: ServiceParser.parse on "Маникюр с покрытием 2800 ₽, 60 минут" returns
\* success=true with exactly one service, whose name is "Маникюр с покрытием",
\* whose price is "2800" and whose duration is "60 мин".
C8_ManicureService ==
  (op = "ServiceParser.parse" /\ arg.raw_data = Str(ManicureText)) =>
     /\ ~res.raised
     /\ res.v.success
     /\ Len(res.v.data) = 1
     /\ res.v.data[1].name =
          <<"RU_M", "ru_a", "ru_n", "ru_i", "ru_k", "ru_yu", "ru_r", " ", "ru_s", " ", "ru_p",
          "ru_o", "ru_k", "ru_r", "ru_y", "ru_t", "ru_i", "ru_e", "ru_m">>
     /\ res.v.data[1].price = Some(<<"2", "8", "0", "0">>)
     /\ res.v.data[1].duration = Some(<<"6", "0", " ", "ru_m", "ru_i", "ru_n">>)

\* the result of parse_price is the range a-b with a confidence of at least 0.9
IsRange(result, a, b) ==
  /\ result.success
  /\ result.data.price_from = Some(ToStr(a))
  /\ result.data.price_to = Some(ToStr(b))
  /\ result.data.price = Some(ToStr(a) \o <<"-">> \o ToStr(b))
  /\ result.confidence >= Tenths(9)

\* C9 as stated: for every price text "a-b <currency>" with integers a < b,
\* parse_price returns success=true with price_from = a, price_to = b,
\* price = "a-b" and confidence at least 0.9.
C9_EveryPriceRange ==
  \A a \in PriceNumbers, b \in PriceNumbers, currency \in Currencies :
    (op = "ServiceParser.parse_price" /\ a < b /\ arg.price_text = RangeText(a, b, currency)) =>
       IsRange(res.v, a, b)

\* C9: for every price text "a-b <currency>" with integers
\* 50 <= a < b <= 500000, parse_price returns success=true with
\* price_from = a, price_to = b, price = "a-b" and confidence 0.9.
C9_ReasonablePriceRange ==
  \A a \in PriceNumbers, b \in PriceNumbers, currency \in Currencies :
    (op = "ServiceParser.parse_price" /\ 50 <= a /\ a < b /\ b <= 500000
     /\ arg.price_text = RangeText(a, b, currency)) =>
       (IsRange(res.v, a, b) /\ res.v.confidence = Tenths(9))
\* the range between the two bounds of a reasonable price was parsed
C9_Witness ==
  /\ op = "ServiceParser.parse_price"
  /\ arg.price_text = RangeText(50, 500000, <<"RUB">>)
  /\ IsRange(res.v, 50, 500000)

\* C10: ScheduleParser.parse on "Пн-Пт: 09:00-18:00, Сб: 10:00-16:00, Вс: выходной"
\* yields a schedule with all 7 day keys: monday..friday = "09:00-18:00",
\* saturday = "10:00-16:00" and sunday = "Выходной".
C10_CompactSchedule ==
  (op = "ScheduleParser.parse" /\ arg.raw_data = Str(CompactScheduleText)) =>
     /\ ~res.raised
     /\ DOMAIN res.v.data.schedule = DayKeys
     /\ \A day \in {"monday", "tuesday", "wednesday", "thursday", "friday"} :
          res.v.data.schedule[day] = <<"0", "9", ":", "0", "0", "-", "1", "8", ":", "0", "0">>
     /\ res.v.data.schedule["saturday"] = <<"1", "0", ":", "0", "0", "-", "1", "6", ":", "0", "0">>
     /\ res.v.data.schedule["sunday"] = <<"RU_V", "ru_y", "ru_h", "ru_o", "ru_d", "ru_n", "ru_o", "ru_j">>

\* the digits of a text, in order
DigitsIn(s) == SelectSeq(s, LAMBDA c : c \in Digit)
\* "+7 (XXX) XXX-XX-XX" with the last ten digits of the text
TenDigitFormat(s) ==
  RussianFormat(Slice(DigitsIn(s), Len(DigitsIn(s)) - 9, Len(DigitsIn(s)) - 6),
                Slice(DigitsIn(s), Len(DigitsIn(s)) - 6, Len(DigitsIn(s)) - 3),
                Slice(DigitsIn(s), Len(DigitsIn(s)) - 3, Len(DigitsIn(s)) - 1),
                Slice(DigitsIn(s), Len(DigitsIn(s)) - 1, Len(DigitsIn(s)) + 1))

\* C11: parse_phone of a text made of the prefix 8, 7 or +7 and ten digits grouped 3-3-2-2,
\* with or without brackets around the area code and with nothing, a space or a hyphen in
\* front of each group, returns "+7 (XXX) XXX-XX-XX" with the same ten digits in order.
C11_RussianPhoneNormalized ==
  (op = "ContactParser.parse_phone" /\ arg.phone_text \in RussianPhoneTexts)
    => res.v = Some(TenDigitFormat(arg.phone_text))

\* C14: parse_phone returns None for every text with fewer than 7 digits.
C14_FewDigitsGiveNone ==
  (op = "ContactParser.parse_phone" /\ Len(DigitsIn(arg.phone_text)) < 7) => res.v = None

\* the segments of a text in which _extract_author finds an author
WithAuthor(text) ==
  SelectSeq(split_reviews(text),
            LAMBDA block : Len(Strip(block)) >= 10 /\ ~IsNone(extract_author(block)))

\* C12: every review in the result of ReviewParser.parse has a non-empty author, the
\* result holds one review for each segment in which an author is found and none for the
\* others, and the block of two reviews whose second has a rating and no author gives
\* exactly one review.
C12_EveryReviewHasAuthor ==
  ("now" \in DOMAIN arg /\ arg.raw_data.t = "str" /\ ~res.raised)
    => /\ \A k \in 1..Len(res.v.data) : res.v.data[k].author # <<>>
       /\ Len(res.v.data) = Len(WithAuthor(arg.raw_data.v))
       /\ arg.raw_data = Str(TwoReviewsText) => Len(res.v.data) = 1

\* the two reviews are split, the second has a rating and is dropped
C12_Witness ==
  /\ op = "ReviewParser.parse"
  /\ arg.raw_data = Str(TwoReviewsText)
  /\ Len(split_reviews(TwoReviewsText)) = 2
  /\ IsNone(extract_author(split_reviews(TwoReviewsText)[2]))
  /\ extract_rating(split_reviews(TwoReviewsText)[2]) = Some(2)
  /\ res.v.success
  /\ Len(res.v.data) = 1
  /\ res.v.data[1].author = <<"RU_A", "ru_n", "ru_n", "ru_a">>
  /\ res.v.data[1].rating = Some(5)

\* C13: parse_website returns None for every url on a domain of the map service, and an
\* Enterprise given such a url as its website is built with the website None.
C13_NoMapServiceWebsite ==
  /\ (op = "ContactParser.parse_website" /\ arg.website_text \in YandexUrls)
       => res.v = None
  /\ (op = "Enterprise" /\ ~IsNone(arg.website) /\ Val(arg.website) \in YandexUrls)
       => (res.ok /\ res.website = None)

\* C20: the metadata of every Enterprise that is constructed holds the keys source_url,
\* scraper_version and extraction_stats, whatever metadata the caller passed.
C20_MetadataKeys ==
  (op = "Enterprise" /\ res.ok)
    => {"source_url", "scraper_version", "extraction_stats"} \subseteq DOMAIN res.metadata

\* the keys of the schedule a WorkingHours holds
StoredDays(working_hours) ==
  IF IsNone(working_hours.schedule) THEN {} ELSE DOMAIN Val(working_hours.schedule)
\* the items of a schedule that validate_schedule does not skip
KeptItems(v) ==
  {k \in 1..Len(v) : /\ Len(v[k][1]) > 0
                     /\ ~IsNone(normalize_weekday(v[k][1]))
                     /\ ~IsNone(normalize_working_hours(Strip(v[k][2])))}
\* the key of the day that has this name in DayNames, or None
KeyOfName(name) ==
  IF \E k \in 1..7 : name \in DayNames[k].names
  THEN Some(DayNames[CHOOSE k \in 1..7 : name \in DayNames[k].names].key)
  ELSE None

\* C15: every key of the schedule of a WorkingHours is one of the 7 English day names;
\* an item whose key is a name of a day is stored under the key of that day, and the
\* stored keys are the keys of the days recognised in the items: no other key is stored.
C15_CanonicalScheduleKeys ==
  (op = "WorkingHours" /\ ~IsNone(arg.schedule))
    => /\ StoredDays(res) \subseteq DayKeys
       /\ \A k \in KeptItems(Val(arg.schedule)) :
            ~IsNone(KeyOfName(Val(arg.schedule)[k][1]))
              => Val(KeyOfName(Val(arg.schedule)[k][1])) \in StoredDays(res)
       /\ StoredDays(res) = {Val(normalize_weekday(Val(arg.schedule)[k][1])) :
                               k \in KeptItems(Val(arg.schedule))}

\* of the items "holiday" and "вт" the second is stored, as tuesday
C15_Witness ==
  /\ op = "WorkingHours"
  /\ arg.schedule = Some(<< <<<<"h", "o", "l", "i", "d", "a", "y">>, CanonicalEntry(9, 0, 23, 0)>>,
                            <<<<"ru_v", "ru_t">>, CanonicalEntry(0, 0, 9, 59)>> >>)
  /\ StoredDays(res) = {"tuesday"}
  /\ Val(res.schedule)["tuesday"] = CanonicalEntry(0, 0, 9, 59)

\* C16: normalizing a canonical entry HH:MM-HH:MM returns the entry, and normalizing
\* what was returned returns it again, in WorkingHours and in the schedule parser.
C16_CanonicalHoursIdempotent ==
  /\ (op = "WorkingHours._normalize_working_hours" /\ arg.hours \in CanonicalEntries)
       => (res.v = Some(arg.hours) /\ normalize_working_hours(Val(res.v)) = res.v)
  /\ (op = "ScheduleParser._extract_working_hours" /\ arg.time_text \in CanonicalEntries)
       => (res.v = Some(arg.time_text) /\ extract_working_hours(Val(res.v)) = res.v)

\* C17: the Russian name, its abbreviation of two letters and the English name of each
\* of the 7 days are normalized to the key of that day, by ScheduleParser's
\* _normalize_day_name and by WorkingHours' _normalize_weekday.
C17_DayAliasClosure ==
  /\ (op = "WorkingHours._normalize_weekday" /\ ~IsNone(KeyOfName(arg.day)))
       => res.v = KeyOfName(arg.day)
  /\ (op = "ScheduleParser._normalize_day_name" /\ ~IsNone(KeyOfName(arg.day_name)))
       => res.v = KeyOfName(arg.day_name)

\* "вс" is normalized to sunday by WorkingHours
C17_Witness ==
  /\ op = "WorkingHours._normalize_weekday"
  /\ arg.day = <<"ru_v", "ru_s">>
  /\ res.v = Some("sunday")

\* price_from and price_to are numbers and the first is the greater
ExceedsTo(price_from, price_to) ==
  /\ IsFloatText(PriceDigits(price_from)) /\ IsFloatText(PriceDigits(price_to))
  /\ ToFloat(PriceDigits(price_to)).n * ToFloat(PriceDigits(price_from)).d
       < ToFloat(PriceDigits(price_from)).n * ToFloat(PriceDigits(price_to)).d

CanonicalLink(prefix, chars, url) ==
  /\ StartsWith(url, prefix)
  /\ Len(url) > Len(prefix)
  /\ \A i \in (Len(prefix) + 1)..Len(url) : url[i] \in chars

CanonicalTelegram(url) == CanonicalLink(<<"h", "t", "t", "p", "s", ":", "/", "/", "t", ".", "m", "e", "/">>, WordChar, url)
CanonicalWhatsapp(url) == CanonicalLink(<<"h", "t", "t", "p", "s", ":", "/", "/", "w", "a", ".", "m", "e", "/">>, Digit, url)
CanonicalVk(url) == CanonicalLink(<<"h", "t", "t", "p", "s", ":", "/", "/", "v", "k", ".", "c", "o", "m", "/">>, WordChar \cup {"."}, url)

\* C19: after SocialNetworks is constructed from strings, each of telegram,
\* whatsapp and vk is null or a canonical https:// link of its network; a
\* canonical link given is stored unchanged, and a bare user name or phone
\* number is expanded to https://t.me/<user>, https://wa.me/<digits>,
\* https://vk.com/<user>.
C19_CanonicalSocialLinks ==
  op = "SocialNetworks" =>
    /\ res.ok
    /\ IsNone(res.telegram) \/ CanonicalTelegram(Val(res.telegram))
    /\ IsNone(res.whatsapp) \/ CanonicalWhatsapp(Val(res.whatsapp))
    /\ IsNone(res.vk) \/ CanonicalVk(Val(res.vk))
    /\ (~IsNone(arg.telegram) /\ CanonicalTelegram(Val(arg.telegram)))
         => res.telegram = arg.telegram
    /\ (~IsNone(arg.whatsapp) /\ CanonicalWhatsapp(Val(arg.whatsapp)))
         => res.whatsapp = arg.whatsapp
    /\ (~IsNone(arg.vk) /\ CanonicalVk(Val(arg.vk))) => res.vk = arg.vk
    /\ (~IsNone(arg.telegram) /\ Len(Val(arg.telegram)) > 0
        /\ \A i \in 1..Len(Val(arg.telegram)) : Val(arg.telegram)[i] \in WordChar)
         => res.telegram = Some(<<"h", "t", "t", "p", "s", ":", "/", "/", "t", ".", "m", "e", "/">> \o Val(arg.telegram))
    /\ (~IsNone(arg.whatsapp) /\ Len(Val(arg.whatsapp)) \in 10..15
        /\ \A i \in 1..Len(Val(arg.whatsapp)) : Val(arg.whatsapp)[i] \in Digit)
         => res.whatsapp = Some(<<"h", "t", "t", "p", "s", ":", "/", "/", "w", "a", ".", "m", "e", "/">> \o Val(arg.whatsapp))
    /\ (~IsNone(arg.vk) /\ Len(Val(arg.vk)) > 0
        /\ \A i \in 1..Len(Val(arg.vk)) : Val(arg.vk)[i] \in WordChar)
         => res.vk = Some(<<"h", "t", "t", "p", "s", ":", "/", "/", "v", "k", ".", "c", "o", "m", "/">> \o Val(arg.vk))

\* the contact fields a result of ContactParser.parse carries
FieldsFound(data) ==
  IF data = EmptyDict THEN <<0, 0>>
  ELSE << (IF IsNone(data.phone) THEN 0 ELSE 1) + (IF IsNone(data.website) THEN 0 ELSE 1)
            + (IF IsNone(data.email) THEN 0 ELSE 1) + Cardinality(DOMAIN data.social_networks),
          (IF IsNone(data.phone) THEN 0 ELSE Tenths(9))
            + (IF IsNone(data.website) THEN 0 ELSE Tenths(8))
            + (IF IsNone(data.email) THEN 0 ELSE Tenths(7))
            + Cardinality(DOMAIN data.social_networks) * Tenths(6) >>

\* C21: ContactParser.parse returns success=false exactly when no contact
\* field was found, and otherwise a confidence equal to the sum of the
\* weights of the fields found (phone 0.9, website 0.8, email 0.7, each
\* social network 0.6) divided by their number, capped at 1.0, whether a
\* field was given directly or mined from the free text.
C21_ContactConfidence ==
  (op = "ContactParser.parse" /\ ~res.raised) =>
     LET found == FieldsFound(res.v.data)
     IN /\ res.v.success <=> found[1] > 0
        /\ res.v.success =>
             res.v.confidence = (IF found[2] \div found[1] < One THEN found[2] \div found[1]
                                 ELSE One)

\* the urls of the failed extractions
FailedUrls(result) == [k \in 1..Len(result.failed_extractions) |-> result.failed_extractions[k].url]

\* every url extract_single was called with is recorded exactly once, as a
\* success or as a failure, and the urls were taken in list order
RecordedOnce(urls, result) ==
  /\ Len(result.attempted) <= Len(urls)
  /\ result.attempted = SubSeq(urls, 1, Len(result.attempted))
  /\ Len(result.successful_extractions) + Len(result.failed_extractions) = Len(result.attempted)
  /\ \A k \in 1..Len(result.attempted) :
       Cardinality({j \in 1..Len(result.successful_extractions) :
                      result.successful_extractions[j] = result.attempted[k]})
       + Cardinality({j \in 1..Len(result.failed_extractions) :
                        FailedUrls(result)[j] = result.attempted[k]}) = 1

\* extract_batch has returned with every url of its list recorded
AllRecorded(urls, result) ==
  /\ RecordedOnce(urls, result)
  /\ result.pc = "returned" =>
       /\ result.attempted = urls
       /\ Len(result.successful_extractions) + Len(result.failed_extractions) = Len(urls)
       /\ result.total_urls = Len(urls)

\* C22 as stated: in extract_batch a url whose extraction fails never stops
\* the batch; however the urls fail, every url of the list is attempted in
\* list order and recorded as exactly one success or one failure, so on
\* return successes + failures is the number of urls.
C22_EveryUrlAttempted ==
  (op = "extract_batch" /\ ~sleep_raises(arg.delay_between)) =>
     /\ AllRecorded(arg.urls, res)
     /\ res.pc # "raised"

\* C22, amended: with continue_on_error true (its default) and a delay that is
\* not negative, every url of the list is attempted in list order and recorded
\* as exactly one success or one failure, and on return successes + failures
\* is the number of urls; the call does not raise.
C22_BatchContinues ==
  (op = "extract_batch" /\ arg.continue_on_error /\ ~sleep_raises(arg.delay_between)) =>
     /\ AllRecorded(arg.urls, res)
     /\ res.pc # "raised"

\* a batch of three urls has returned: extract_single raised for the first,
\* and a later url was extracted
C22_Witness ==
  /\ op = "extract_batch"
  /\ arg.continue_on_error
  /\ ~sleep_raises(arg.delay_between)
  /\ res.pc = "returned"
  /\ Len(arg.urls) = MaxUrls
  /\ Len(res.failed_extractions) > 0
  /\ res.failed_extractions[1] = [url |-> arg.urls[1], error |-> "OSError"]
  /\ Len(res.successful_extractions) > 0

\* C23: for every Review with a rating r in 1..5, is_positive() (r >= 4) and
\* is_negative() (r <= 2) are never both true; exactly one of them is true
\* for r in {1, 2, 4, 5} and neither is true for r = 3.
C23_PositiveNegativeExclusive ==
  (op \in {"Review.is_positive", "Review.is_negative"} /\ ~IsNone(arg.rating)
   /\ Val(arg.rating) \in 1..5) =>
     LET r == Val(arg.rating)
         positive == IF op = "Review.is_positive" THEN res.v ELSE is_positive(arg)
         negative == IF op = "Review.is_negative" THEN res.v ELSE is_negative(arg)
     IN /\ ~res.raised
        /\ positive = Some(r >= 4)
        /\ negative = Some(r <= 2)
        /\ ~(Val(positive) /\ Val(negative))
        /\ r \in {1, 2, 4, 5} => (Val(positive) # Val(negative))
        /\ r = 3 => (~Val(positive) /\ ~Val(negative))

\* a Review with the rating 4 was asked whether it is negative, and it is not
C23_Witness ==
  /\ op = "Review.is_negative"
  /\ arg.rating = Some(4)
  /\ res = Returned(Some(FALSE))

\* C24: ServiceParser.parse splits a block of services on the first separator,
\* in the order bulleted list, numbered list, blank lines, semicolon, pipe,
\* that gives more than one segment of more than 5 characters, and parses each
\* segment as a service of its own; a block no separator splits so is one
\* service.
C24_BlockSplitIntoServices ==
  op = "ServiceParser.parse" =>
    /\ \A block \in ServiceBlocks :
         arg.raw_data = Str(block.text) =>
           /\ split_services(clean_text(block.text)) = block.segments
           /\ ~res.raised
           /\ res.v.success
           /\ Len(res.v.data) = Len(block.segments)
    /\ arg.raw_data = Str(OneServiceBlock) =>
         /\ split_services(clean_text(OneServiceBlock)) = <<OneServiceBlock>>
         /\ ~res.raised
         /\ res.v.success
         /\ Len(res.v.data) = 1

\* a price outside the bounds of a reasonable price
Unreasonable(n) == n < 50 \/ n > 500000

\* C25: a price whose value lies outside [50, 500000] lowers the confidence
\* of parse_price but is not rejected: for such a bare price, "от" price,
\* "до" price or range the result has success=true, a confidence above 0 and
\* below that of the form, and carries the price extracted.
C25_UnreasonablePriceKept ==
  op = "ServiceParser.parse_price" =>
    \A n \in PriceNumbers, currency \in Currencies :
      Unreasonable(n) =>
        /\ arg.price_text = PriceText(n, currency) =>
             /\ res.v.success
             /\ res.v.data.price = Some(ToStr(n))
             /\ 0 < res.v.confidence /\ res.v.confidence < Tenths(7)
        /\ arg.price_text = PriceFromText(n, currency) =>
             /\ res.v.success
             /\ res.v.data.price_from = Some(ToStr(n))
             /\ 0 < res.v.confidence /\ res.v.confidence < Tenths(8)
        /\ arg.price_text = PriceToText(n, currency) =>
             /\ res.v.success
             /\ res.v.data.price_to = Some(ToStr(n))
             /\ 0 < res.v.confidence /\ res.v.confidence < Tenths(8)
        /\ \A m \in PriceNumbers :
             /\ (n < m /\ arg.price_text = RangeText(n, m, currency)) =>
                  /\ res.v.success
                  /\ res.v.data.price_from = Some(ToStr(n))
                  /\ res.v.data.price_to = Some(ToStr(m))
                  /\ 0 < res.v.confidence /\ res.v.confidence < Tenths(9)
             /\ (m < n /\ arg.price_text = RangeText(m, n, currency)) =>
                  /\ res.v.success
                  /\ res.v.data.price_from = Some(ToStr(m))
                  /\ res.v.data.price_to = Some(ToStr(n))
                  /\ 0 < res.v.confidence /\ res.v.confidence < Tenths(9)

\* C26: the schedule parser passes a non-empty hours text without a closed
\* or 24-hours keyword and without a valid time range through as it is, as
\* the hours of the day, so that a day with such hours is in the schedule.
C26_UnparseableHoursKept ==
  /\ (op = "ScheduleParser._extract_working_hours" /\ arg.time_text \in UnparseableHours)
       => res.v = Some(arg.time_text)
  /\ \A hours \in UnparseableHours :
       (op = "ScheduleParser.parse" /\ arg.raw_data = Str(MondayLine(hours))) =>
          /\ ~res.raised
          /\ res.v.data # EmptyDict
          /\ "monday" \in DOMAIN res.v.data.schedule

\* a text of the form DD.MM.YYYY
IsDayMonthYear(s) ==
  /\ Len(s) = 10
  /\ \A i \in {1, 2, 4, 5, 7, 8, 9, 10} : s[i] \in Digit
  /\ s[3] = "." /\ s[6] = "."

\* C27: ReviewParser.parse_date turns every date it recognises (month-name
\* dates with and without a year in Russian or English, numeric D.M.Y, D/M/Y
\* and ISO dates, relative expressions) into a text of the form DD.MM.YYYY.
C27_DateAsDayMonthYear ==
  (op = "ReviewParser.parse_date" /\ ~IsNone(res.v)) => IsDayMonthYear(Val(res.v))

\* text has three or more newlines in a row between two characters that are
\* not whitespace
HasLongNewlineRun(text) ==
  \E i \in 1..Len(text), j \in 1..Len(text) :
    /\ j >= i + 4
    /\ text[i] \notin Whitespace
    /\ text[j] \notin Whitespace
    /\ \A k \in (i + 1)..(j - 1) : text[k] = "\n"

\* no two spaces in a row
SingleSpaces(text) == ~Contains(text, <<" ", " ">>)

\* C28 (first half): with normalize_whitespace, the cleaned text has no run
\* of two or more spaces.
C28_SpacesCollapsed ==
  (op = "BaseParser.clean_text" /\ ~res.raised /\ arg.normalize_whitespace)
    => SingleSpaces(res.v)

\* C28: clean_text with normalize_whitespace, called on a text holding a run
\* of three or more newlines, returns a text with exactly two newlines, next
\* to each other.
C28_NewlineRunsBecomeTwo ==
  (op = "BaseParser.clean_text" /\ ~res.raised /\ arg.normalize_whitespace
     /\ HasLongNewlineRun(arg.text))
    => /\ Contains(res.v, <<"\n", "\n">>)
       /\ Len(SelectSeq(res.v, LAMBDA c : c = "\n")) = 2

\* the digits of s are ten digits, or eleven digits that start with 8 or 7
TenOrElevenDigits(s) ==
  \/ Len(DigitsIn(s)) = 10
  \/ Len(DigitsIn(s)) = 11 /\ DigitsIn(s)[1] \in {"8", "7"}

\* no pattern of PHONE_PATTERNS is found in the text once the characters that
\* are no digit, sign, bracket or whitespace are taken out
NoPhonePattern(s) ==
  \A k \in 1..Len(PHONE_PATTERNS) :
    ~Found(Search(PHONE_PATTERNS[k].re, PHONE_PATTERNS[k].ng,
                  Sub(NotPhoneChar, <<>>, s, FALSE), FALSE))

\* C29 (as stated): parse_phone of a text whose digits are ten digits, or
\* eleven digits starting with 8 or 7, returns "+7 (XXX) XXX-XX-XX" made of
\* its last ten digits.
C29_DigitCountFormat ==
  (op = "ContactParser.parse_phone" /\ TenOrElevenDigits(arg.phone_text))
    => res.v = Some(TenDigitFormat(arg.phone_text))

\* C29: parse_phone of a text in which no pattern of PHONE_PATTERNS is found
\* and whose digits are ten digits, or eleven digits starting with 8 or 7,
\* returns "+7 (XXX) XXX-XX-XX" made of its last ten digits; with any other
\* count of digits it returns None.
C29_DigitFallback ==
  (op = "ContactParser.parse_phone" /\ Len(arg.phone_text) > 0
     /\ NoPhonePattern(arg.phone_text))
    => res.v = IF TenOrElevenDigits(arg.phone_text)
               THEN Some(TenDigitFormat(arg.phone_text))
               ELSE None

\* parse_phone has returned a number for a ten-digit text in which no pattern
\* is found
C29_Witness ==
  /\ op = "ContactParser.parse_phone"
  /\ NoPhonePattern(arg.phone_text)
  /\ Len(DigitsIn(arg.phone_text)) = 10
  /\ res.v = Some(TenDigitFormat(arg.phone_text))

\* the same for an eleven-digit text
C29_WitnessEleven ==
  /\ op = "ContactParser.parse_phone"
  /\ NoPhonePattern(arg.phone_text)
  /\ Len(DigitsIn(arg.phone_text)) = 11
  /\ res.v = Some(TenDigitFormat(arg.phone_text))

\* the price fields of a Service: validate_price_fields is the validator of each
PriceFields == {"price", "price_from", "price_to"}

\* the Service model takes the value as the field of a price
AcceptedPrice(v) == Field(Service_price_Field, validate_price_fields, v).ok

\* C30: every price, price_from and price_to that parse_price returns in a
\* result with success true is accepted by the price-field validator of the
\* Service model.
C30_ParsedPricesAccepted ==
  (op = "ServiceParser.parse_price" /\ res.v.success)
    => \A f \in PriceFields : AcceptedPrice(res.v.data[f])

\* C30 (the part that holds): the bounds price_from and price_to of such a
\* result are accepted, and so is a price that is a range or a bare number.
C30_BoundsAccepted ==
  (op = "ServiceParser.parse_price" /\ res.v.success)
    => /\ AcceptedPrice(res.v.data.price_from)
       /\ AcceptedPrice(res.v.data.price_to)
       /\ (IsNone(res.v.data.price_from) = IsNone(res.v.data.price_to))
            => AcceptedPrice(res.v.data.price)

====
